---- MODULE Spec2Model ----
(***************************************************************************)
(* Model of the UDP event ingestion pipeline of neuromorphic-screens:      *)
(*   src/src/test_UDP/neuromorphic_udp_visualizer.py                       *)
(*     EventData            the bounded, locked event store                *)
(*     UDPEventReceiver     the receive thread, the decoder, the drain     *)
(*     NeuromorphicVisualizer.update_events   the fade projection          *)
(* Time is counted in ticks of 10 ms (0.01 s = 1 tick), so that every time *)
(* constant of the source is a whole number of ticks.                      *)
(***************************************************************************)
EXTENDS Integers, Sequences, FiniteSets, TLC

\* ------------------------------------------------------------------ bounds
\* capacity of the deque in the model (the source builds deque(maxlen=100000))
MaxLen == 2
\* datagrams the OS receive buffer holds at once
MaxQueue == 2
\* Spec: the last tick of the clock, the datagrams sent in one run
MaxTime == 2
MaxPackets == 2
\* SpecStore: the datagrams sent, the appends after which add_event is called no more
StorePackets == 2
StoreHist == 4
\* SpecQuery: the last tick, the datagrams sent, the appends as for SpecStore
QueryTime == 2
QueryPackets == 1
QueryHist == 2
\* SpecDrain: the last tick, the datagrams sent
DrainTime == 12
DrainPackets == 3
\* SpecCodec: the datagrams sent in one run
CodecPackets == 2
\* SpecFade: the last tick of the clock
FadeTime == 16
\* SpecStop: the last tick, the datagrams sent
StopTime == 2
StopPackets == 2
\* SpecLife: the last tick, the datagrams sent, the appends after which add_event is
\* called no more
LifeTime == 2
LifePackets == 1
LifeHist == 1
\* SpecFault: the last tick, the datagrams sent
FaultTime == 2
FaultPackets == 2
\* SpecStats: the last tick, the length of one step of the clock, the datagrams sent
StatsTime == 400
StatsStep == 100
StatsPackets == 3
\* SpecCounters: the last tick, the datagrams sent, the appends after which add_event
\* is called no more
CountersTime == 200
CountersPackets == 2
CountersHist == 1
\* SpecRender: the last tick, the length of one step of the clock, the datagrams sent
RenderTime == 18
RenderStep == 6
RenderPackets == 2
\* SpecMode: the last tick, the datagrams sent
ModeTime == 2
ModePackets == 2

\* SpecQueue: consumer threads, chunks the decoders yield, events per chunk
QueueThreads == 2
QueueFed == 2
QueueChunkLen == 2
\* SpecRun: the datagrams run() receives
RunPackets == 2
\* SpecTotals: consumer threads, chunks the decoders yield
TotalsThreads == 1
TotalsFed == 2
\* SpecLatency: the datagrams sent, and every how many of them one is too short
LatPackets == 118
LatShortEvery == 7
\* SpecChunk: the datagrams sent, the capacity of the deque
ChunkPackets == 1
ChunkCap == 250

\* ------------------------------------------------- constants of the source
\* DOT_FADE_DURATION = 0.1 s
DOT_FADE_DURATION == 10
\* buffer_clear_interval = 0.01 s
buffer_clear_interval == 1
\* the drain's time budget, 0.05 s
DrainBudget == 5
\* socket.settimeout(0.05) in start()
StartTimeout == 5
\* socket.settimeout(0.01) at the end of the drain
DrainTimeout == 1
\* event_size = 16 in _process_packet
event_size == 16
\* dvs_event_size = 8 + 2 + 2 + 1 in the fallback receiver
dvs_event_size == 13
\* "if len(event_bytes) >= 13" in _process_packet
MinRecordBytes == 13
\* stats_interval = 2.0 s
stats_interval == 200
\* max_latency_samples = 100
max_latency_samples == 100
\* get_recent_events(self, time_window=5.0)
DefaultWindow == 500
\* max_active_dots = 100000
max_active_dots == 100000
\* microseconds in one tick (packet_receive_time * 1000000 with 1 tick = 0.01 s)
TickMicros == 10000
\* the bounds test of _process_packet: 0 <= x <= 1920 and 0 <= y <= 1080
XLimit == 1920
YLimit == 1080
\* the screen: NeuromorphicVisualizer(width=1920, height=1080)
screen_width == 1920
screen_height == 1080
\* the header: an 8-byte packet timestamp
HeaderSize == 8
\* ticks in one second (1 tick = 0.01 s)
TicksPerSecond == 100
\* "if current_time - self.last_throughput_time >= 0.1"
ThroughputWindow == 10
\* "(bytes_delta * 10.0)": the bytes of a 0.1 s window scaled to one second
ThroughputScale == 10
\* "elif PARALLEL_AVAILABLE and len(recent_events) > 100"
ParallelThreshold == 100
\* chunk_size = max(50, len(recent_events) // 4)
MinChunk == 50
ChunkDivisor == 4

\* ------------------------------------------------------------------- codec
Min(a, b) == IF a < b THEN a ELSE b
Max(a, b) == IF a > b THEN a ELSE b

\* struct.pack('<Q' / '<H', v): n bytes, least significant first (the sender's side)
RECURSIVE PackLE(_, _)
PackLE(v, n) == IF n = 0 THEN <<>> ELSE <<v % 256>> \o PackLE(v \div 256, n - 1)

\* struct.unpack('<Q' / '<H', b)[0]: little-endian unsigned
RECURSIVE UnpackLE(_)
UnpackLE(b) == IF b = <<>> THEN 0 ELSE Head(b) + 256 * UnpackLE(Tail(b))

\* struct.unpack('<b', b)[0]: one signed byte
UnpackInt8(b) == IF b[1] >= 128 THEN b[1] - 256 ELSE b[1]

\* Python's s[a:b] on a byte string (0-based, end exclusive, clipped)
Slice(s, a, b) == SubSeq(s, a + 1, Min(b, Len(s)))

\* the sender's 16-byte record: u64 t, u16 x, u16 y, i8 polarity, 3 bytes of padding
EncodeRecord(r) ==
    PackLE(r.timestamp, 8) \o PackLE(r.x, 2) \o PackLE(r.y, 2)
        \o <<(r.polarity + 256) % 256>> \o <<0, 0, 0>>

\* the records one after the other, event_size bytes each
RECURSIVE EncodeRecords(_)
EncodeRecords(rs) ==
    IF Len(rs) = 0 THEN <<>>
    ELSE IF Len(rs) = 1 THEN EncodeRecord(rs[1])
    ELSE LET half == Len(rs) \div 2
         IN  EncodeRecords(SubSeq(rs, 1, half)) \o EncodeRecords(SubSeq(rs, half + 1, Len(rs)))

\* a datagram: the 8-byte header, the records, r trailing bytes
Encode(d) == PackLE(d.ts, HeaderSize) \o EncodeRecords(d.recs) \o [i \in 1..d.r |-> 170]

\* num_events = len(event_data) // event_size, for a record size sz
NumEvents(data, sz) == (Len(data) - HeaderSize) \div sz

\* one iteration of the decoding loop: the fields of record i (0-based) of event_data
ParseRecord(event_data, i) ==
    LET offset == i * event_size
        event_bytes == Slice(event_data, offset, offset + event_size)
    IN  [timestamp |-> UnpackLE(Slice(event_bytes, 0, 8)),
         x |-> UnpackLE(Slice(event_bytes, 8, 10)),
         y |-> UnpackLE(Slice(event_bytes, 10, 12)),
         polarity |-> UnpackInt8(Slice(event_bytes, 12, 13))]

\* the guards of one iteration: the record lies inside the buffer and has 13 bytes
RecordReadable(event_data, i) ==
    LET offset == i * event_size
    IN  /\ offset + event_size <= Len(event_data)
        /\ Len(Slice(event_data, offset, offset + event_size)) >= MinRecordBytes

\* the records the loop of _process_packet parses, in order (before the bounds test)
ParseFrom(event_data, i, n) ==
    LET Readable(j) == RecordReadable(event_data, j)
        read == SelectSeq([k \in 1..Max(0, n - i) |-> i + k - 1], Readable)
    IN  [k \in 1..Len(read) |-> ParseRecord(event_data, read[k])]

\* the decoding loop run on the whole datagram, the header not cut off
CandidatesWithHeader(data) == ParseFrom(data, 0, NumEvents(data, event_size))

Candidates(data) ==
    ParseFrom(Slice(data, HeaderSize, Len(data)), 0, NumEvents(data, event_size))

\* a bounds check that lets every record through
InBoundsAll(e) == TRUE

\* the screen bounds check of _process_packet
InBounds(e) == 0 <= e.x /\ e.x <= XLimit /\ 0 <= e.y /\ e.y <= YLimit

\* events_to_add: the parsed records that pass the bounds check
DecodeEvents(data) == SelectSeq(Candidates(data), InBounds)

\* ------------------------------------------------------------------- state
VARIABLES
    events,             \* EventData.events: the deque, oldest first
    maxlen,             \* the deque's maxlen
    lockHolder,         \* EventData.lock: "none", "recv" or "main"
    stats,              \* EventData.stats: packets, events, bytes
    running,            \* UDPEventReceiver.running
    sock,               \* the socket: state, mode, timeout (ticks)
    sockq,              \* the OS receive buffer: datagrams, oldest first
    now,                \* time.time(), in ticks
    sent,               \* datagrams the sender has emitted
    rpc,                \* the receive thread's position
    rcv,                \* the receive thread's locals
    mpc,                \* the main (render) thread's position
    con,                \* the main thread's locals
    last_buffer_clear,  \* UDPEventReceiver.last_buffer_clear
    last_stats_time,    \* UDPEventReceiver.last_stats_time
    packet_latencies,   \* UDPEventReceiver.packet_latencies
    hist,               \* history: every event appended since the last clear
    written,            \* history: the deque was written since the diagnostics routine began
    processed,          \* history: ids of the datagrams given to _process_packet
    drains,             \* history: the finished drains (ids queued at its start, how it ended)
    perf,               \* UDPEventReceiver: start_time and the windowed throughput fields
    reports,            \* history: what _print_performance_stats has printed, oldest first
    er,                 \* test_event_receiver.EventReceiver: running, consumer_thread, totals
    event_queue,        \* EventReceiver.event_queue: chunks and None sentinels, oldest first
    thr,                \* the consumer threads EventReceiver.start has created
    caller,             \* the threads that call the EventReceiver's methods
    fed,                \* number of chunks the decoders have yielded
    dequeued,           \* history: what process_events has taken from the queue, oldest first
    tr,                 \* test_UDP/test_event_receiver.EventReceiver: socket, running, stats
    trun,               \* run(): its position, its locals, what it printed and returned
    twire               \* history: datagrams run() received, the whole records in them,
                        \* whether start() failed, the receive errors run() did not print

vars == <<events, maxlen, lockHolder, stats, running, sock, sockq, now, sent, rpc, rcv,
          mpc, con, last_buffer_clear, last_stats_time, packet_latencies, hist,
          written, processed, drains, perf, reports,
          er, event_queue, thr, caller, fed, dequeued, tr, trun, twire>>

queueVars == <<er, event_queue, thr, caller, fed, dequeued>>
testVars == <<tr, trun, twire>>
toolVars == <<queueVars, testVars>>
storeVars == <<events, maxlen, stats, hist, written>>
recvObjVars == <<last_buffer_clear, last_stats_time, packet_latencies, perf>>
histVars == <<processed, drains, reports>>

\* a list in place of the bounded deque: nothing is ever evicted
ListAppend(q, e, cap) == Append(q, e)

\* a deque that takes new events at its front and drops from its back
DequeAppendLeft(q, e, cap) ==
    IF cap = 0 THEN <<>>
    ELSE IF Len(q) >= cap THEN <<e>> \o SubSeq(q, 1, Len(q) - 1) ELSE <<e>> \o q

\* collections.deque.append on a deque with maxlen: the oldest falls out when full
DequeAppend(q, e, cap) ==
    IF cap = 0 THEN <<>>
    ELSE IF Len(q) >= cap THEN Append(Tail(q), e) ELSE Append(q, e)

\* a lock that lets every thread in
CanAcquireAlways(t) == TRUE

\* "with self.lock": a thread enters when nobody holds the lock
CanAcquire(t) == lockHolder = "none"

\* the dict stored for one event
EventDict(r, received_time) ==
    [timestamp |-> r.timestamp, x |-> r.x, y |-> r.y, polarity |-> r.polarity,
     received_time |-> received_time]

RcvIdle ==
    [data |-> <<>>, id |-> 0, events_to_add |-> <<>>, i |-> 0, stamp |-> 0,
     current_time |-> 0, start_time |-> 0, cleared_count |-> 0, pre |-> {},
     drain_exit |-> "none", seen |-> 0, batch_pre |-> <<>>, recv_since |-> 0,
     fault |-> FALSE, timed_out |-> FALSE, dropped |-> {}]

ConIdle ==
    [op |-> "none", time_window |-> 0, current_time |-> 0, q_time |-> 0,
     recent_events |-> <<>>, first_time |-> 0, first_events |-> <<>>,
     active_dots |-> <<>>, total_events |-> 0, arg |-> <<>>, stopped |-> FALSE]

\* ids of the consumer threads start() may create
QThreads == 1..QueueThreads

\* the callers of the EventReceiver: the main thread and a second thread that may stop it
QCallers == {"main", "ctl"}

\* the import of event_stream succeeded
HAS_EVENT_STREAM == TRUE

\* the None that ends the stream, put by consumer thread by (0: by stop())
NoneItem(by) == [kind |-> "None", len |-> 0, by |-> by]

\* a chunk of n events put by consumer thread by
ChunkItem(n, by) == [kind |-> "chunk", len |-> n, by |-> by]

NoResult == [kind |-> "none", total_chunks |-> 0, total_events |-> 0]

CallerIdle ==
    [pc |-> "idle", max_duration |-> 0, expired |-> FALSE, chunk |-> NoneItem(0),
     got |-> <<>>, target |-> 0, result |-> NoResult]

\* test_event_receiver.EventReceiver.__init__
QueueInit ==
    /\ er = [running |-> FALSE, consumer_thread |-> 0, total_chunks |-> 0, total_events |-> 0]
    /\ event_queue = <<>>
    /\ thr = [t \in QThreads |-> [pc |-> "unborn", chunk |-> 0]]
    /\ caller = [c \in QCallers |-> CallerIdle]
    /\ fed = 0
    /\ dequeued = <<>>

\* test_UDP/test_event_receiver.EventReceiver.__init__
TestInit ==
    /\ tr = [socket |-> "none", running |-> FALSE, packets_received |-> 0,
             events_received |-> 0, bytes_received |-> 0, polarity_counts |-> <<>>]
    /\ trun = [pc |-> "idle", data |-> <<>>, offset |-> 0, events_processed |-> 0,
               ret |-> "none", errors |-> <<>>]
    /\ twire = [received |-> 0, whole |-> 0, start_failed |-> FALSE, unreported |-> <<>>]


\* EventData.__init__ and UDPEventReceiver.__init__, with a deque of capacity cap
InitWith(cap) ==
    /\ events = <<>>
    /\ maxlen = cap
    /\ lockHolder = "none"
    /\ stats = [packets |-> 0, events |-> 0, bytes |-> 0]
    /\ running = FALSE
    /\ sock = [state |-> "none", mode |-> "blocking", timeout |-> 0]
    /\ sockq = <<>>
    /\ now = 0
    /\ sent = 0
    /\ rpc = "unstarted"
    /\ rcv = RcvIdle
    /\ mpc = "init"
    /\ con = ConIdle
    /\ last_buffer_clear = 0
    /\ last_stats_time = 0
    /\ packet_latencies = <<>>
    /\ hist = <<>>
    /\ written = FALSE
    /\ processed = {}
    /\ drains = {}
    /\ perf = [start_time |-> 0, last_throughput_time |-> 0, last_throughput_bytes |-> 0,
               current_throughput |-> 0]
    /\ reports = <<>>
    /\ QueueInit
    /\ TestInit

Init == InitWith(MaxLen)

\* ------------------------------------------------------------- environment
\* the clock advances by step ticks, up to tick limit
Tick(limit, step) ==
    /\ now + step <= limit
    /\ now' = now + step
    /\ UNCHANGED <<events, maxlen, lockHolder, stats, running, sock, sockq, sent, rpc, rcv,
                   mpc, con, last_buffer_clear, last_stats_time, packet_latencies, hist,
                   written, processed, drains, perf, reports, toolVars>>

\* bytes that are no well-formed datagram arrive at the bound port
SendBytes(b, limit) ==
    /\ sock.state = "open"
    /\ sent < limit
    /\ Len(sockq) < MaxQueue
    /\ sent' = sent + 1
    /\ sockq' = Append(sockq, [bytes |-> b, id |-> sent + 1])
    /\ UNCHANGED <<events, maxlen, lockHolder, stats, running, sock, now, rpc, rcv,
                   mpc, con, last_buffer_clear, last_stats_time, packet_latencies, hist,
                   written, processed, drains, perf, reports, toolVars>>

\* the bytes of the id-th datagram of a producer that numbers its datagrams in the
\* header timestamp and sends 3 stray bytes in place of every LatShortEvery-th
NumberedBytes(id) ==
    IF id % LatShortEvery = 0 THEN <<5, 0, 0>>
    ELSE PackLE(id, HeaderSize) \o <<7, 0, 0, 0, 0, 0, 0, 0, 3, 0, 4, 0, 1, 0, 0, 0>>

\* that producer sends its next datagram
SendNumbered(limit) == SendBytes(NumberedBytes(sent + 1), limit)

\* the producer sends datagram d to the bound port, at most limit datagrams in all
Send(d, limit) ==
    /\ sock.state = "open"
    /\ sent < limit
    /\ Len(sockq) < MaxQueue
    /\ sent' = sent + 1
    /\ sockq' = Append(sockq, [bytes |-> Encode(d), id |-> sent + 1])
    /\ UNCHANGED <<events, maxlen, lockHolder, stats, running, sock, now, rpc, rcv,
                   mpc, con, last_buffer_clear, last_stats_time, packet_latencies, hist,
                   written, processed, drains, perf, reports, toolVars>>

\* ---------------------------------------------------------- receive thread
Ids(q) == {q[k].id : k \in 1..Len(q)}

\* "while self.running:" at the top of _receive_loop
LoopTest ==
    /\ rpc = "loop"
    /\ IF running
       THEN /\ rpc' = "recv"
            /\ rcv' = [rcv EXCEPT !.recv_since = now]
       ELSE /\ rpc' = "done"
            /\ rcv' = rcv
    /\ UNCHANGED <<storeVars, lockHolder, running, sock, sockq, now, sent, mpc, con,
                   recvObjVars, histVars, toolVars>>

\* recvfrom returns the oldest queued datagram
RecvData ==
    /\ rpc = "recv"
    /\ sock.state = "open"
    /\ sockq # <<>>
    /\ rcv' = [rcv EXCEPT !.data = Head(sockq).bytes, !.id = Head(sockq).id,
                          !.timed_out = FALSE]
    /\ sockq' = Tail(sockq)
    /\ rpc' = "process"
    /\ UNCHANGED <<storeVars, lockHolder, running, sock, now, sent, mpc, con,
                   recvObjVars, histVars, toolVars>>

\* a timeout handled like any other exception of recvfrom: the loop is left
RecvTimeoutBreak ==
    /\ rpc = "recv"
    /\ \/ sock.state = "closed"
       \/ sock.state = "open" /\ sock.mode = "timeout" /\ sockq = <<>>
    /\ now - rcv.recv_since >= sock.timeout
    /\ rpc' = "done"
    /\ rcv' = [rcv EXCEPT !.timed_out = TRUE]
    /\ UNCHANGED <<storeVars, lockHolder, running, sock, sockq, now, sent, mpc, con,
                   recvObjVars, histVars, toolVars>>

\* "except socket.timeout:" no datagram came within the socket's timeout; the handler
\* reads the clock and starts a drain when the clearing interval has passed, then
\* "continue"
RecvTimeout ==
    /\ rpc = "recv"
    /\ \/ sock.state = "closed"
       \/ sock.state = "open" /\ sock.mode = "timeout" /\ sockq = <<>>
    /\ now - rcv.recv_since >= sock.timeout
    /\ IF now - last_buffer_clear >= buffer_clear_interval
       THEN /\ rpc' = "drain_start"
            /\ rcv' = [rcv EXCEPT !.current_time = now, !.timed_out = TRUE]
       ELSE /\ rpc' = "loop"
            /\ rcv' = [rcv EXCEPT !.timed_out = TRUE]
    /\ UNCHANGED <<storeVars, lockHolder, running, sock, sockq, now, sent, mpc, con,
                   recvObjVars, histVars, toolVars>>

\* "except Exception: ... break": recvfrom raises on a closed socket, or on an empty
\* buffer when the socket was left non-blocking
RecvError ==
    /\ rpc = "recv"
    /\ \/ sock.state = "closed"
       \/ sock.state = "open" /\ sock.mode = "nonblocking" /\ sockq = <<>>
    /\ rpc' = "done"
    /\ rcv' = [rcv EXCEPT !.fault = TRUE]
    /\ UNCHANGED <<storeVars, lockHolder, running, sock, sockq, now, sent, mpc, con,
                   recvObjVars, histVars, toolVars>>

\* a receive error after which the loop tries again
RecvFaultRetry ==
    /\ rpc = "recv"
    /\ sock.state = "open"
    /\ ~rcv.fault
    /\ rpc' = "loop"
    /\ rcv' = [rcv EXCEPT !.fault = TRUE]
    /\ UNCHANGED <<storeVars, lockHolder, running, sock, sockq, now, sent, mpc, con,
                   recvObjVars, histVars, toolVars>>

\* "except Exception: ... break" when recvfrom raises an OSError on the open socket
\* (a reset reported by the network stack, for one)
RecvFault ==
    /\ rpc = "recv"
    /\ sock.state = "open"
    /\ rpc' = "done"
    /\ rcv' = [rcv EXCEPT !.fault = TRUE]
    /\ UNCHANGED <<storeVars, lockHolder, running, sock, sockq, now, sent, mpc, con,
                   recvObjVars, histVars, toolVars>>

\* a sample list that only grows
PushLatencyUnbounded(samples, latency) == Append(samples, latency)

\* the latency sample window: drop the oldest beyond max_latency_samples, then append
PushLatency(samples, latency) ==
    Append(IF Len(samples) >= max_latency_samples THEN Tail(samples) ELSE samples, latency)

\* a length test that lets every datagram through
TooShortNever(data) == FALSE

\* "if len(data) < 8: return"
TooShort(data) == Len(data) < HeaderSize

\* _process_packet up to the batch: the length test, the latency sample, the decoding
ProcessPacket ==
    /\ rpc = "process"
    /\ processed' = processed \cup {rcv.id}
    /\ IF TooShort(rcv.data)
       THEN /\ rpc' = "count"
            /\ rcv' = rcv
            /\ packet_latencies' = packet_latencies
       ELSE /\ packet_latencies' =
                PushLatency(packet_latencies,
                            now * TickMicros - UnpackLE(Slice(rcv.data, 0, HeaderSize)))
            /\ rcv' = [rcv EXCEPT !.events_to_add = DecodeEvents(rcv.data)]
            /\ rpc' = IF DecodeEvents(rcv.data) # <<>> THEN "batch_lock" ELSE "stats_check"
    /\ UNCHANGED <<storeVars, lockHolder, running, sock, sockq, now, sent, mpc, con,
                   last_buffer_clear, last_stats_time, drains, perf, reports, toolVars>>

\* "with self.event_data.lock: current_time = time.time()"
BatchAcquire ==
    /\ rpc = "batch_lock"
    /\ CanAcquire("recv")
    /\ lockHolder' = "recv"
    /\ rcv' = [rcv EXCEPT !.stamp = now, !.i = 1, !.batch_pre = events]
    /\ rpc' = "batch_append"
    /\ UNCHANGED <<storeVars, running, sock, sockq, now, sent, mpc, con,
                   recvObjVars, histVars, toolVars>>

\* one iteration of "for ... in events_to_add: self.event_data.events.append({...})"
BatchAppend ==
    /\ rpc = "batch_append"
    /\ LET e == EventDict(rcv.events_to_add[rcv.i], rcv.stamp)
       IN  /\ events' = DequeAppend(events, e, maxlen)
           /\ hist' = Append(hist, e)
    /\ written' = TRUE
    /\ rcv' = [rcv EXCEPT !.i = rcv.i + 1]
    /\ rpc' = IF rcv.i >= Len(rcv.events_to_add) THEN "batch_count" ELSE "batch_append"
    /\ UNCHANGED <<maxlen, stats, lockHolder, running, sock, sockq, now, sent, mpc, con,
                   recvObjVars, histVars, toolVars>>

\* "self.event_data.stats['events'] += len(events_to_add)" and the end of the with block
BatchCount ==
    /\ rpc = "batch_count"
    /\ stats' = [stats EXCEPT !.events = stats.events + Len(rcv.events_to_add)]
    /\ lockHolder' = "none"
    /\ rpc' = "stats_check"
    /\ UNCHANGED <<events, maxlen, hist, written, running, sock, sockq, now, sent, rcv,
                   mpc, con, recvObjVars, histVars, toolVars>>

RECURSIVE SumSeq(_)
SumSeq(q) == IF q = <<>> THEN 0 ELSE Head(q) + SumSeq(Tail(q))

MaxSeq(q) == CHOOSE v \in {q[k] : k \in 1..Len(q)} : \A k \in 1..Len(q) : q[k] <= v

\* a quotient the source computes in floating point, kept as a fraction
Rate(num, den) == [num |-> num, den |-> den]
NoRate == Rate(0, 1)

\* a report that computes its rates whatever the duration
PerformanceStatsUnguarded(current_time) ==
    LET duration == current_time - perf.start_time
    IN  [time |-> current_time, duration |-> duration, rates |-> TRUE,
         total_packets |-> stats.packets, total_events |-> stats.events,
         total_bytes |-> stats.bytes,
         events_per_sec |-> Rate(stats.events * TicksPerSecond, duration),
         throughput |-> perf.current_throughput,
         avg_throughput |-> Rate(stats.bytes * TicksPerSecond, duration),
         avg_latency |-> IF packet_latencies # <<>>
                         THEN Rate(SumSeq(packet_latencies), Len(packet_latencies))
                         ELSE NoRate,
         max_latency |-> IF packet_latencies # <<>> THEN MaxSeq(packet_latencies) ELSE 0]

\* _print_performance_stats: what it prints. Rates are per second; the throughputs are
\* in bytes per second (the source divides them by 1024 * 1024 for MB/s)
PerformanceStats(current_time) ==
    LET duration == current_time - perf.start_time
    IN  IF duration > 0
        THEN [time |-> current_time, duration |-> duration, rates |-> TRUE,
              total_packets |-> stats.packets, total_events |-> stats.events,
              total_bytes |-> stats.bytes,
              events_per_sec |-> Rate(stats.events * TicksPerSecond, duration),
              throughput |-> perf.current_throughput,
              avg_throughput |-> Rate(stats.bytes * TicksPerSecond, duration),
              avg_latency |-> IF packet_latencies # <<>>
                              THEN Rate(SumSeq(packet_latencies), Len(packet_latencies))
                              ELSE NoRate,
              max_latency |-> IF packet_latencies # <<>> THEN MaxSeq(packet_latencies) ELSE 0]
        ELSE [time |-> current_time, duration |-> duration, rates |-> FALSE,
              total_packets |-> stats.packets, total_events |-> stats.events,
              total_bytes |-> stats.bytes,
              events_per_sec |-> NoRate, throughput |-> 0, avg_throughput |-> NoRate,
              avg_latency |-> NoRate, max_latency |-> 0]

\* the end of _process_packet: the statistics are printed every stats_interval
StatsCheck ==
    /\ rpc = "stats_check"
    /\ IF now - last_stats_time >= stats_interval
       THEN /\ reports' = Append(reports, PerformanceStats(now))
            /\ last_stats_time' = now
       ELSE /\ UNCHANGED <<reports, last_stats_time>>
    /\ rpc' = "count"
    /\ UNCHANGED <<storeVars, lockHolder, running, sock, sockq, now, sent, rcv, mpc, con,
                   last_buffer_clear, packet_latencies, processed, drains, perf, toolVars>>

\* a receive loop that counts only the datagrams that gave events
CountPacketDecodedOnly ==
    /\ rpc = "count"
    /\ stats' = IF rcv.events_to_add = <<>> THEN stats
                ELSE [stats EXCEPT !.packets = stats.packets + 1,
                                   !.bytes = stats.bytes + Len(rcv.data)]
    /\ rpc' = "loop"
    /\ rcv' = RcvIdle
    /\ UNCHANGED <<events, maxlen, hist, written, lockHolder, running, sock, sockq, now,
                   sent, mpc, con, recvObjVars, histVars, toolVars>>

\* back in _receive_loop: the packet and byte counters, the windowed throughput every
\* 0.1 s, then the clearing interval
CountPacket ==
    /\ rpc = "count"
    /\ stats' = [stats EXCEPT !.packets = stats.packets + 1,
                              !.bytes = stats.bytes + Len(rcv.data)]
    /\ perf' = IF now - perf.last_throughput_time >= ThroughputWindow
               THEN [perf EXCEPT
                        !.current_throughput =
                            (stats'.bytes - perf.last_throughput_bytes) * ThroughputScale,
                        !.last_throughput_time = now,
                        !.last_throughput_bytes = stats'.bytes]
               ELSE perf
    /\ IF now - last_buffer_clear >= buffer_clear_interval
       THEN /\ rpc' = "drain_start"
            /\ rcv' = [RcvIdle EXCEPT !.current_time = now]
       ELSE /\ rpc' = "loop"
            /\ rcv' = RcvIdle
    /\ UNCHANGED <<events, maxlen, hist, written, lockHolder, running, sock, sockq, now,
                   sent, mpc, con, last_buffer_clear, last_stats_time, packet_latencies,
                   histVars, toolVars>>

\* a drain that gives up after any datagram it has read
BudgetSpent(start_time, t) == TRUE

\* a drain without a time budget
BudgetUnlimited(start_time, t) == FALSE

\* "if time.time() - start_time > 0.05: break"
BudgetExceeded(start_time, t) == t - start_time > DrainBudget

\* the drain has returned (or raised and swallowed the error): back in the loop. The
\* history keeps the ids queued at its start, how it ended, whether it returned within
\* the budget, and the ids still queued that had arrived by its last read
DrainReturn(exit) ==
    /\ drains' = drains \cup
           {[pre |-> rcv.pre, exit |-> exit,
             within |-> now - rcv.start_time <= DrainBudget,
             left |-> {id \in Ids(sockq) : id <= rcv.seen},
             dropped |-> rcv.dropped]}
    /\ last_buffer_clear' = rcv.current_time
    /\ rcv' = [RcvIdle EXCEPT !.timed_out = rcv.timed_out]
    /\ rpc' = "loop"

\* _clear_socket_buffer: "self.socket.setblocking(False); start_time = time.time()"
DrainStart ==
    /\ rpc = "drain_start"
    /\ IF sock.state = "open"
       THEN /\ sock' = [sock EXCEPT !.mode = "nonblocking"]
            /\ rcv' = [rcv EXCEPT !.start_time = now, !.cleared_count = 0,
                                  !.pre = Ids(sockq), !.seen = sent]
            /\ rpc' = "drain_recv"
            /\ UNCHANGED <<drains, last_buffer_clear>>
       ELSE /\ DrainReturn("error")
            /\ sock' = sock
    /\ UNCHANGED <<storeVars, lockHolder, running, sockq, now, sent, mpc, con,
                   last_stats_time, packet_latencies, processed, perf, reports, toolVars>>

\* a drain that counts what it reads as received packets
DrainRecvCounting ==
    /\ rpc = "drain_recv"
    /\ sock.state = "open"
    /\ sockq # <<>>
    /\ sockq' = Tail(sockq)
    /\ stats' = [stats EXCEPT !.packets = stats.packets + 1,
                              !.bytes = stats.bytes + Len(Head(sockq).bytes)]
    /\ rcv' = [rcv EXCEPT !.cleared_count = rcv.cleared_count + 1,
                          !.dropped = rcv.dropped \cup {Head(sockq).id},
                          !.seen = sent]
    /\ rpc' = "drain_recv"
    /\ UNCHANGED <<events, maxlen, hist, written, lockHolder, running, sock, now, sent, mpc,
                   con, recvObjVars, processed, drains, reports, toolVars>>

\* one non-blocking recvfrom of the drain loop, and the budget test after it
DrainRecv ==
    /\ rpc = "drain_recv"
    /\ IF sock.state # "open"
       THEN /\ DrainReturn("error")
            /\ sockq' = sockq
       ELSE IF sockq = <<>>
       THEN /\ rcv' = [rcv EXCEPT !.drain_exit = "empty", !.seen = sent]
            /\ rpc' = "drain_restore"
            /\ UNCHANGED <<sockq, drains, last_buffer_clear>>
       ELSE /\ sockq' = Tail(sockq)
            /\ rcv' = [rcv EXCEPT !.cleared_count = rcv.cleared_count + 1,
                                  !.dropped = rcv.dropped \cup {Head(sockq).id},
                                  !.seen = sent,
                                  !.drain_exit =
                                      IF BudgetExceeded(rcv.start_time, now)
                                      THEN "budget" ELSE "none"]
            /\ rpc' = IF BudgetExceeded(rcv.start_time, now)
                      THEN "drain_restore" ELSE "drain_recv"
            /\ UNCHANGED <<drains, last_buffer_clear>>
    /\ UNCHANGED <<storeVars, lockHolder, running, sock, now, sent, mpc, con,
                   last_stats_time, packet_latencies, processed, perf, reports, toolVars>>

\* "self.socket.setblocking(True); self.socket.settimeout(0.01)", the statistics
\* clock reset when something was dropped, and the return to the loop
DrainRestore ==
    /\ rpc = "drain_restore"
    /\ IF sock.state = "open"
       THEN /\ sock' = [sock EXCEPT !.mode = "timeout", !.timeout = DrainTimeout]
            /\ last_stats_time' = IF rcv.cleared_count > 0 THEN now ELSE last_stats_time
            /\ DrainReturn(rcv.drain_exit)
       ELSE /\ sock' = sock
            /\ last_stats_time' = last_stats_time
            /\ DrainReturn("error")
    /\ UNCHANGED <<storeVars, lockHolder, running, sockq, now, sent, mpc, con,
                   packet_latencies, processed, perf, reports, toolVars>>

\* an exception handler of the drain that leaves the socket as the drain loop had it
DrainFaultLeak ==
    /\ rpc = "drain_recv"
    /\ sock.state = "open"
    /\ sock' = sock
    /\ DrainReturn("fault")
    /\ UNCHANGED <<storeVars, lockHolder, running, sockq, now, sent, mpc, con,
                   last_stats_time, packet_latencies, processed, perf, reports, toolVars>>

\* the drain's recvfrom raises an OSError that is no BlockingIOError on the open socket:
\* "except Exception:" sets the socket blocking again with the 10 ms timeout and the
\* routine returns (the statistics clock is not reset on this path)
DrainFault ==
    /\ rpc = "drain_recv"
    /\ sock.state = "open"
    /\ sock' = [sock EXCEPT !.mode = "timeout", !.timeout = DrainTimeout]
    /\ DrainReturn("fault")
    /\ UNCHANGED <<storeVars, lockHolder, running, sockq, now, sent, mpc, con,
                   last_stats_time, packet_latencies, processed, perf, reports, toolVars>>

\* ------------------------------------------------- main (render) thread
\* a scan that leaves out the events stamped exactly at the cutoff
RecentEventsAfter(q, cutoff_time) ==
    LET Recent(e) == e.received_time > cutoff_time
    IN  SelectSeq(q, Recent)

\* the list comprehension of get_recent_events: the events at or after cutoff_time
RecentEvents(q, cutoff_time) ==
    LET Recent(e) == e.received_time >= cutoff_time
    IN  SelectSeq(q, Recent)

\* an opacity that grows with age instead of fading
AlphaOfAge(age) ==
    Max(0, Min(1000, (age * 1000) \div DOT_FADE_DURATION))

\* a fade that reaches 0 one tick after the fade window has passed
AlphaLate(age) ==
    Max(0, Min(1000, ((DOT_FADE_DURATION + 1 - age) * 1000) \div DOT_FADE_DURATION))

\* the fade without its clamp
AlphaUnclamped(age) == ((DOT_FADE_DURATION - age) * 1000) \div DOT_FADE_DURATION

\* alpha = max(0.0, min(1.0, (DOT_FADE_DURATION - age) / DOT_FADE_DURATION)), in 1/1000
Alpha(age) ==
    Max(0, Min(1000, ((DOT_FADE_DURATION - age) * 1000) \div DOT_FADE_DURATION))

\* the test "if age <= DOT_FADE_DURATION" of update_events
Active(age) == age <= DOT_FADE_DURATION

\* the sequential loop of update_events over recent_events
ProjectEvents(recent, current_time) ==
    LET Shown(event) == Active(current_time - event.received_time)
        shown == SelectSeq(recent, Shown)
    IN  [k \in 1..Len(shown) |->
            [x |-> shown[k].x, y |-> shown[k].y, polarity |-> shown[k].polarity,
             alpha |-> Alpha(current_time - shown[k].received_time)]]

\* [recent_events[i:i+chunk_size] for i in range(0, len(recent_events), chunk_size)]
EventChunks(recent, chunk_size) ==
    [c \in 1..((Len(recent) + chunk_size - 1) \div chunk_size) |->
        SubSeq(recent, (c - 1) * chunk_size + 1, Min(c * chunk_size, Len(recent)))]

\* "for chunk_dots in chunk_results: self.active_dots.extend(chunk_dots)"
RECURSIVE Flatten(_)
Flatten(chunk_results) ==
    IF chunk_results = <<>> THEN <<>>
    ELSE Head(chunk_results) \o Flatten(Tail(chunk_results))

\* chunk results gathered last chunk first
ProjectChunkedReversed(recent, current_time) ==
    LET event_chunks == EventChunks(recent, Max(MinChunk, Len(recent) \div ChunkDivisor))
        n == Len(event_chunks)
    IN  Flatten([c \in 1..n |-> ProjectEvents(event_chunks[n + 1 - c], current_time)])

\* the parallel path of update_events: the chunks, process_event_chunk on each of them
\* through executor.map (results in the order of the chunks), the results flattened
ProjectChunked(recent, current_time) ==
    LET event_chunks == EventChunks(recent, Max(MinChunk, Len(recent) \div ChunkDivisor))
    IN  Flatten([c \in 1..Len(event_chunks) |-> ProjectEvents(event_chunks[c], current_time)])

\* "recent_events[-max_events_to_process:]" with min(len, max_active_dots)
LastN(q, n) == SubSeq(q, Len(q) - Min(Len(q), n) + 1, Len(q))

\* UDPEventReceiver.start: the socket is bound, the timeout set, the thread started,
\* start_time taken
Start ==
    /\ mpc = "init"
    /\ sock' = [state |-> "open", mode |-> "timeout", timeout |-> StartTimeout]
    /\ running' = TRUE
    /\ rpc' = "loop"
    /\ mpc' = "idle"
    /\ perf' = [perf EXCEPT !.start_time = now]
    /\ UNCHANGED <<storeVars, lockHolder, sockq, now, sent, rcv, con, last_buffer_clear,
                   last_stats_time, packet_latencies, histVars, toolVars>>

\* main(): start() is called right after the constructor, before the clock has moved
StartPrompt == now = 0 /\ Start

\* a start that raises the running flag before the bind is known to have worked
StartFailRunning ==
    /\ mpc = "init"
    /\ running' = TRUE
    /\ mpc' = "exit"
    /\ UNCHANGED <<storeVars, lockHolder, sock, sockq, now, sent, rpc, rcv, con,
                   recvObjVars, histVars, toolVars>>

\* UDPEventReceiver.start when socket.socket() raises (no socket object) or when
\* setsockopt or bind raises (a socket that is not bound): "except Exception: return
\* False", and main returns 1 without calling stop
StartFail ==
    /\ mpc = "init"
    /\ \E created \in BOOLEAN :
           sock' = IF created THEN [sock EXCEPT !.state = "unbound"] ELSE sock
    /\ mpc' = "exit"
    /\ UNCHANGED <<storeVars, lockHolder, running, sockq, now, sent, rpc, rcv, con,
                   recvObjVars, histVars, toolVars>>

\* update_events: "current_time = time.time()", then get_recent_events(time_window=0.1)
UpdateBegin ==
    /\ mpc = "idle"
    /\ con' = [con EXCEPT !.op = "update", !.current_time = now,
                          !.time_window = DOT_FADE_DURATION]
    /\ mpc' = "q_lock"
    /\ UNCHANGED <<storeVars, lockHolder, running, sock, sockq, now, sent, rpc, rcv,
                   recvObjVars, histVars, toolVars>>

\* a diagnostics routine: get_recent_events(w), called twice in a row
QueryBegin(w) ==
    /\ mpc = "idle"
    /\ con' = [con EXCEPT !.op = "query1", !.time_window = w]
    /\ written' = FALSE
    /\ mpc' = "q_lock"
    /\ UNCHANGED <<events, maxlen, stats, hist, lockHolder, running, sock, sockq, now, sent,
                   rpc, rcv, recvObjVars, histVars, toolVars>>

\* get_recent_events: "with self.lock:"
QueryAcquire ==
    /\ mpc = "q_lock"
    /\ CanAcquire("main")
    /\ lockHolder' = "main"
    /\ mpc' = "q_body"
    /\ UNCHANGED <<storeVars, running, sock, sockq, now, sent, rpc, rcv, con,
                   recvObjVars, histVars, toolVars>>

\* a query that also prunes the store down to the events it returns
QueryBodyPrune ==
    /\ mpc = "q_body"
    /\ con' = [con EXCEPT !.recent_events = RecentEvents(events, now - con.time_window),
                          !.q_time = now]
    /\ events' = RecentEvents(events, now - con.time_window)
    /\ lockHolder' = "none"
    /\ mpc' = CASE con.op = "update" -> "project"
                [] con.op = "query1" -> "q_again"
                [] OTHER -> "q_done"
    /\ UNCHANGED <<maxlen, stats, hist, written, running, sock, sockq, now, sent, rpc, rcv,
                   recvObjVars, histVars, toolVars>>

\* get_recent_events: the clock, the cutoff, the scan, the return (the lock is released)
QueryBody ==
    /\ mpc = "q_body"
    /\ con' = [con EXCEPT !.recent_events = RecentEvents(events, now - con.time_window),
                          !.q_time = now]
    /\ lockHolder' = "none"
    /\ mpc' = CASE con.op = "update" -> "project"
                [] con.op = "query1" -> "q_again"
                [] OTHER -> "q_done"
    /\ UNCHANGED <<storeVars, running, sock, sockq, now, sent, rpc, rcv,
                   recvObjVars, histVars, toolVars>>

\* the diagnostics routine keeps the first result and calls get_recent_events again
QueryAgain ==
    /\ mpc = "q_again"
    /\ con' = [con EXCEPT !.op = "query2", !.first_time = con.q_time,
                          !.first_events = con.recent_events]
    /\ mpc' = "q_lock"
    /\ UNCHANGED <<storeVars, lockHolder, running, sock, sockq, now, sent, rpc, rcv,
                   recvObjVars, histVars, toolVars>>

\* the diagnostics routine returns; its locals are gone
QueryEnd ==
    /\ mpc = "q_done"
    /\ con' = [ConIdle EXCEPT !.total_events = con.total_events, !.stopped = con.stopped]
    /\ mpc' = "idle"
    /\ UNCHANGED <<storeVars, lockHolder, running, sock, sockq, now, sent, rpc, rcv,
                   recvObjVars, histVars, toolVars>>

\* update_events: the active dots of this tick, by the parallel path above 100 events
\* and by the sequential loop otherwise (use_gpu is False)
Project ==
    /\ mpc = "project"
    /\ LET recent_events == LastN(con.recent_events, max_active_dots)
       IN  con' = [con EXCEPT !.active_dots =
                      IF Len(recent_events) > ParallelThreshold
                      THEN ProjectChunked(recent_events, con.current_time)
                      ELSE ProjectEvents(recent_events, con.current_time)]
    /\ mpc' = "read_stats"
    /\ UNCHANGED <<storeVars, lockHolder, running, sock, sockq, now, sent, rpc, rcv,
                   recvObjVars, histVars, toolVars>>

\* "self.performance_stats['total_events'] = event_data.stats['events']" and the
\* connection panel of main_loop: the counters are read without the lock. The tick
\* ends here: its locals are gone and the next tick starts from active_dots = []
ReadStats ==
    /\ mpc = "read_stats"
    /\ con' = [ConIdle EXCEPT !.total_events = stats.events, !.stopped = con.stopped]
    /\ mpc' = "idle"
    /\ UNCHANGED <<storeVars, lockHolder, running, sock, sockq, now, sent, rpc, rcv,
                   recvObjVars, histVars, toolVars>>

\* EventData.add_event(timestamp, x, y, polarity), called with record r
AddEventBegin(r, limit) ==
    /\ mpc = "idle"
    /\ Len(hist) < limit
    /\ con' = [con EXCEPT !.op = "add", !.arg = r]
    /\ mpc' = "a_lock"
    /\ UNCHANGED <<storeVars, lockHolder, running, sock, sockq, now, sent, rpc, rcv,
                   recvObjVars, histVars, toolVars>>

\* add_event: "with self.lock:"
AddEventAcquire ==
    /\ mpc = "a_lock"
    /\ CanAcquire("main")
    /\ lockHolder' = "main"
    /\ mpc' = "a_body"
    /\ UNCHANGED <<storeVars, running, sock, sockq, now, sent, rpc, rcv, con,
                   recvObjVars, histVars, toolVars>>

\* an add_event that counts the event it appends
AddEventBodyCounting ==
    /\ mpc = "a_body"
    /\ LET e == EventDict(con.arg, now)
       IN  /\ events' = DequeAppend(events, e, maxlen)
           /\ hist' = Append(hist, e)
    /\ stats' = [stats EXCEPT !.events = stats.events + 1]
    /\ written' = TRUE
    /\ lockHolder' = "none"
    /\ con' = [con EXCEPT !.op = "none", !.arg = <<>>]
    /\ mpc' = "idle"
    /\ UNCHANGED <<maxlen, running, sock, sockq, now, sent, rpc, rcv,
                   recvObjVars, histVars, toolVars>>

\* add_event: the stamp and the append (the lock is released)
AddEventBody ==
    /\ mpc = "a_body"
    /\ LET e == EventDict(con.arg, now)
       IN  /\ events' = DequeAppend(events, e, maxlen)
           /\ hist' = Append(hist, e)
    /\ written' = TRUE
    /\ lockHolder' = "none"
    /\ con' = [con EXCEPT !.op = "none", !.arg = <<>>]
    /\ mpc' = "idle"
    /\ UNCHANGED <<maxlen, stats, running, sock, sockq, now, sent, rpc, rcv,
                   recvObjVars, histVars, toolVars>>

\* EventData.clear()
ClearBegin ==
    /\ mpc = "idle"
    /\ events # <<>>
    /\ con' = [con EXCEPT !.op = "clear"]
    /\ mpc' = "c_lock"
    /\ UNCHANGED <<storeVars, lockHolder, running, sock, sockq, now, sent, rpc, rcv,
                   recvObjVars, histVars, toolVars>>

\* clear: "with self.lock:"
ClearAcquire ==
    /\ mpc = "c_lock"
    /\ CanAcquire("main")
    /\ lockHolder' = "main"
    /\ mpc' = "c_body"
    /\ UNCHANGED <<storeVars, running, sock, sockq, now, sent, rpc, rcv, con,
                   recvObjVars, histVars, toolVars>>

\* a clear that also starts the counters again from zero
ClearBodyReset ==
    /\ mpc = "c_body"
    /\ events' = <<>>
    /\ hist' = <<>>
    /\ stats' = [packets |-> 0, events |-> 0, bytes |-> 0]
    /\ written' = TRUE
    /\ lockHolder' = "none"
    /\ con' = [con EXCEPT !.op = "none"]
    /\ mpc' = "idle"
    /\ UNCHANGED <<maxlen, running, sock, sockq, now, sent, rpc, rcv,
                   recvObjVars, histVars, toolVars>>

\* a clear that keeps the newest event
ClearBodyKeepLast ==
    /\ mpc = "c_body"
    /\ events' = <<events[Len(events)]>>
    /\ hist' = <<>>
    /\ written' = TRUE
    /\ lockHolder' = "none"
    /\ con' = [con EXCEPT !.op = "none"]
    /\ mpc' = "idle"
    /\ UNCHANGED <<maxlen, stats, running, sock, sockq, now, sent, rpc, rcv,
                   recvObjVars, histVars, toolVars>>

\* clear: "self.events.clear()" (the lock is released)
ClearBody ==
    /\ mpc = "c_body"
    /\ events' = <<>>
    /\ hist' = <<>>
    /\ written' = TRUE
    /\ lockHolder' = "none"
    /\ con' = [con EXCEPT !.op = "none"]
    /\ mpc' = "idle"
    /\ UNCHANGED <<maxlen, stats, running, sock, sockq, now, sent, rpc, rcv,
                   recvObjVars, histVars, toolVars>>

\* UDPEventReceiver.stop: "self.running = False"
StopBegin ==
    /\ mpc = "idle"
    /\ ~con.stopped
    /\ running' = FALSE
    /\ con' = [con EXCEPT !.op = "stop"]
    /\ mpc' = "stop_close"
    /\ UNCHANGED <<storeVars, lockHolder, sock, sockq, now, sent, rpc, rcv,
                   recvObjVars, histVars, toolVars>>

\* stop: "if self.socket: self.socket.close()"; the receive buffer goes with the socket
StopClose ==
    /\ mpc = "stop_close"
    /\ sock' = [sock EXCEPT !.state = "closed"]
    /\ sockq' = <<>>
    /\ mpc' = "stop_join"
    /\ UNCHANGED <<storeVars, lockHolder, running, now, sent, rpc, rcv, con,
                   recvObjVars, histVars, toolVars>>

\* a join that does not wait for the thread
JoinedAtOnce == TRUE

\* "self.thread.join()" returns once the receive thread has ended
Joined == rpc = "done"

\* a stop that empties the store and zeroes the counters on its way out
StopJoinReset ==
    /\ mpc = "stop_join"
    /\ Joined
    /\ events' = <<>>
    /\ stats' = [packets |-> 0, events |-> 0, bytes |-> 0]
    /\ con' = [con EXCEPT !.op = "none", !.stopped = TRUE]
    /\ mpc' = "idle"
    /\ UNCHANGED <<maxlen, hist, written, lockHolder, running, sock, sockq, now, sent, rpc,
                   rcv, recvObjVars, histVars, toolVars>>

\* stop: "if self.thread: self.thread.join()", then stop returns
StopJoin ==
    /\ mpc = "stop_join"
    /\ Joined
    /\ con' = [con EXCEPT !.op = "none", !.stopped = TRUE]
    /\ mpc' = "idle"
    /\ UNCHANGED <<storeVars, lockHolder, running, sock, sockq, now, sent, rpc, rcv,
                   recvObjVars, histVars, toolVars>>

\* ------------------------------------------------------------ inputs
\* records the producer puts into datagrams
RecIn == [timestamp |-> 7, x |-> 3, y |-> 4, polarity |-> 1]
RecEdge == [timestamp |-> 300, x |-> 1920, y |-> 1080, polarity |-> -1]
RecXOut == [timestamp |-> 9, x |-> 1921, y |-> 4, polarity |-> 1]
RecYOut == [timestamp |-> 9, x |-> 3, y |-> 1081, polarity |-> -1]

\* the datagrams of the concurrent specifications: one with a single record, one of
\* 45 bytes with two records and 5 trailing bytes
Datagrams ==
    { [ts |-> 1, recs |-> <<RecIn>>, r |-> 0],
      [ts |-> 2, recs |-> <<RecEdge, RecIn>>, r |-> 5] }

\* the datagrams of the decoding specification: up to two records each, in and out
\* of bounds, with and without trailing bytes
CodecRecs == {RecIn, RecEdge, RecXOut, RecYOut}
CodecDatagrams ==
    [ts : {1}, recs : {<<>>} \cup {<<a>> : a \in CodecRecs}
                        \cup {<<a, b>> : a \in CodecRecs, b \in {RecIn, RecYOut}},
     r : {0, 5}]

\* byte strings that are no well-formed datagram: nothing, 3 bytes, a header with a
\* record cut off after 10 bytes, a header with a record of arbitrary bytes
\* (x = y = 65535) and 3 more bytes
RawDatagrams ==
    { <<>>,
      <<5, 0, 0>>,
      <<9, 0, 0, 0, 0, 0, 0, 0>> \o <<1, 0, 0, 0, 0, 0, 0, 0, 3, 0>>,
      <<9, 0, 0, 0, 0, 0, 0, 0>>
          \o <<1, 2, 0, 0, 0, 0, 0, 0, 255, 255, 255, 255, 200, 7, 7, 7>> \o <<1, 2, 3>> }

\* the datagrams of the query and life specifications: one record each
QueryDatagrams == { [ts |-> 1, recs |-> <<RecIn>>, r |-> 0] }

Windows == {0, 1, DefaultWindow}

ApiEvents == { [timestamp |-> 5, x |-> 10, y |-> 20, polarity |-> 1] }

\* five events A..E given to add_event one after the other, and the clock readings
\* (in ticks) at which add_event is called
FadeRecs ==
    [k \in 1..5 |-> [timestamp |-> k, x |-> k, y |-> 10 + k,
                     polarity |-> IF k % 2 = 0 THEN -1 ELSE 1]]
FadeTimes == <<0, 2, 5, 12, 15>>

\* the records of a datagram that carries n events, told apart by x
ManyRecs(n) ==
    [k \in 1..n |-> [timestamp |-> k, x |-> k, y |-> 10 + (k % 7),
                     polarity |-> IF k % 2 = 0 THEN -1 ELSE 1]]

\* datagrams around the threshold of the parallel path: 100 and 101 events
ChunkDatagrams ==
    { [ts |-> 1, recs |-> ManyRecs(n), r |-> 0] : n \in {ParallelThreshold, ParallelThreshold + 1} }

\* ------------------------------------------------------- specifications
ReceiveLoop ==
    \/ LoopTest \/ RecvData \/ RecvTimeout
    \/ ProcessPacket \/ BatchAcquire \/ BatchAppend \/ BatchCount \/ StatsCheck
    \/ CountPacket \/ DrainStart \/ DrainRecv \/ DrainRestore

\* the receive loop as long as the clock has not advanced since __init__
ReceiveLoopNoClock ==
    \/ LoopTest \/ RecvData
    \/ ProcessPacket \/ BatchAcquire \/ BatchAppend \/ BatchCount \/ StatsCheck
    \/ CountPacket

UpdateTick == UpdateBegin \/ QueryAcquire \/ QueryBody \/ Project \/ ReadStats

\* the receiver from start() to stop(), the producer, the render loop
Next ==
    \/ StartPrompt \/ StartFail
    \/ Tick(MaxTime, 1)
    \/ (\E d \in Datagrams : Send(d, MaxPackets))
    \/ ReceiveLoop \/ RecvError
    \/ UpdateTick
    \/ StopBegin \/ StopClose \/ StopJoin

Spec == Init /\ [][Next]_vars

\* the store under every writer: the receive loop's batches, add_event and clear,
\* with the render tick reading it, all within the first clock tick
NextStore ==
    \/ Start
    \/ (\E d \in Datagrams : Send(d, StorePackets))
    \/ ReceiveLoopNoClock
    \/ UpdateTick
    \/ (\E r \in ApiEvents : AddEventBegin(r, StoreHist)) \/ AddEventAcquire \/ AddEventBody
    \/ ClearBegin \/ ClearAcquire \/ ClearBody

SpecStore == Init /\ [][NextStore]_vars

\* the window query over time: events of several ages, a diagnostics routine that
\* queries twice, the receive loop writing in between
NextQuery ==
    \/ StartPrompt
    \/ Tick(QueryTime, 1)
    \/ (\E d \in QueryDatagrams : Send(d, QueryPackets))
    \/ ReceiveLoop
    \/ (\E w \in Windows : QueryBegin(w)) \/ QueryAcquire \/ QueryBody
    \/ QueryAgain \/ QueryEnd
    \/ (\E r \in ApiEvents : AddEventBegin(r, QueryHist)) \/ AddEventAcquire \/ AddEventBody

SpecQuery == Init /\ [][NextQuery]_vars

\* the backlog drain: the receive loop under a producer that outruns it and a clock
\* that jumps past the drain's budget
NextDrain ==
    \/ StartPrompt
    \/ Tick(DrainTime, DrainBudget + 1)
    \/ (\E d \in Datagrams : Send(d, DrainPackets))
    \/ ReceiveLoop

SpecDrain == Init /\ [][NextDrain]_vars

\* the same with a receive thread that is scheduled again and again and a clock that
\* goes on while it can
SpecDrainLive ==
    /\ Init /\ [][NextDrain]_vars
    /\ WF_vars(ReceiveLoop)
    /\ WF_vars(Tick(DrainTime, DrainBudget + 1))

\* the decoder on many datagrams: the receive loop within its first clock tick
NextCodec ==
    \/ Start
    \/ (\E d \in CodecDatagrams : Send(d, CodecPackets))
    \/ (\E b \in RawDatagrams : SendBytes(b, CodecPackets))
    \/ ReceiveLoopNoClock

SpecCodec == Init /\ [][NextCodec]_vars

\* the receiver from start() to stop() under a producer; both threads keep being
\* scheduled (the clock and the producer need not go on)
NextStop ==
    \/ StartPrompt
    \/ Tick(StopTime, 1)
    \/ (\E d \in Datagrams : Send(d, StopPackets))
    \/ ReceiveLoop \/ RecvError
    \/ StopBegin \/ StopClose \/ StopJoin

SpecStop ==
    /\ Init /\ [][NextStop]_vars
    /\ WF_vars(ReceiveLoop \/ RecvError)
    /\ WF_vars(StopClose \/ StopJoin)

\* the whole life of a receiver: every operation of the store, the receive loop with
\* its drains and statistics, the render tick, stop()
NextLife ==
    \/ StartPrompt
    \/ Tick(LifeTime, 1)
    \/ (\E d \in QueryDatagrams : Send(d, LifePackets))
    \/ ReceiveLoop \/ RecvError
    \/ UpdateTick
    \/ (\E r \in ApiEvents : AddEventBegin(r, LifeHist)) \/ AddEventAcquire \/ AddEventBody
    \/ ClearBegin \/ ClearAcquire \/ ClearBody
    \/ StopBegin \/ StopClose \/ StopJoin

SpecLife == Init /\ [][NextLife]_vars

\* the faults of the socket: a start that fails, and the receive loop hit by a receive
\* error while the producer and the render loop go on
NextFault ==
    \/ StartPrompt \/ StartFail
    \/ Tick(FaultTime, 1)
    \/ (\E d \in QueryDatagrams : Send(d, FaultPackets))
    \/ ReceiveLoop \/ RecvFault
    \/ UpdateTick

SpecFault == Init /\ [][NextFault]_vars

\* the statistics over several seconds: the clock advances one second at a time, before
\* and after start(), while the producer sends and the receive loop processes and drains
NextStats ==
    \/ Start
    \/ Tick(StatsTime, StatsStep)
    \/ (\E d \in QueryDatagrams : Send(d, StatsPackets))
    \/ ReceiveLoop

SpecStats == Init /\ [][NextStats]_vars

\* a long run of numbered datagrams through the receive loop, all within the first
\* clock tick (no timeout, no drain: every datagram is given to _process_packet)
\* the writers and the readers of the counters side by side: the receive loop with its
\* reports (the clock advances by one statistics interval), the render tick and the
\* operations of the store called from the main thread
NextCounters ==
    \/ Start
    \/ Tick(CountersTime, stats_interval)
    \/ (\E d \in QueryDatagrams : Send(d, CountersPackets))
    \/ ReceiveLoop
    \/ UpdateTick
    \/ (\E r \in ApiEvents : AddEventBegin(r, CountersHist)) \/ AddEventAcquire \/ AddEventBody
    \/ ClearBegin \/ ClearAcquire \/ ClearBody

SpecCounters == Init /\ [][NextCounters]_vars

\* the render tick beside the receive thread over more than one fade window: events
\* grow older than the window, and events are stamped while a tick is under way
NextRender ==
    \/ Start
    \/ Tick(RenderTime, RenderStep)
    \/ (\E d \in QueryDatagrams : Send(d, RenderPackets))
    \/ ReceiveLoop
    \/ UpdateTick

SpecRender == Init /\ [][NextRender]_vars

\* the socket's mode and timeout over the receiver's life: drains that end on an empty
\* buffer, on an exception of their recvfrom or on the closed socket, and stop()
NextMode ==
    \/ StartPrompt
    \/ Tick(ModeTime, 1)
    \/ (\E d \in QueryDatagrams : Send(d, ModePackets))
    \/ ReceiveLoop \/ RecvError
    \/ DrainFault
    \/ StopBegin \/ StopClose \/ StopJoin

SpecMode == Init /\ [][NextMode]_vars

NextLatency ==
    \/ Start
    \/ SendNumbered(LatPackets)
    \/ ReceiveLoopNoClock

SpecLatency == Init /\ [][NextLatency]_vars

\* large batches in a deque of capacity ChunkCap while the render tick projects them,
\* all within the first clock tick
InitChunk == InitWith(ChunkCap)

NextChunk ==
    \/ Start
    \/ (\E d \in ChunkDatagrams : Send(d, ChunkPackets))
    \/ ReceiveLoopNoClock
    \/ UpdateTick

SpecChunk == InitChunk /\ [][NextChunk]_vars

\* add_event called with the next of FadeRecs, at one of the clock readings of FadeTimes
FadeAdd ==
    /\ Len(hist) < Len(FadeRecs)
    /\ \E k \in 1..Len(FadeTimes) : now = FadeTimes[k]
    /\ AddEventBegin(FadeRecs[Len(hist) + 1], Len(FadeRecs))

\* a store of capacity 4 filled through add_event while the render tick projects it;
\* the receive thread is started and has not been scheduled yet
InitFade == InitWith(Len(FadeRecs) - 1)

NextFade ==
    \/ StartPrompt
    \/ Tick(FadeTime, 1)
    \/ FadeAdd \/ AddEventAcquire \/ AddEventBody
    \/ UpdateTick

SpecFade == InitFade /\ [][NextFade]_vars

\* ------------------------------------------------------------------ claims
\* the last c elements of h, in order
LastInserted(h, c) == SubSeq(h, Max(1, Len(h) - c + 1), Len(h))

\* C1: after any sequence of add_event calls and batch inserts, interleaved with
\* queries and clears, the store never holds more than its capacity, and it holds
\* exactly the last `capacity` events inserted since the last clear, in the order
\* they were inserted (the oldest are evicted first).
C1_CapacityLastInserted ==
    /\ Len(events) <= maxlen
    /\ events = LastInserted(hist, maxlen)

\* more events were inserted than the store holds, by the receive loop and by add_event
C1_Witness ==
    /\ Len(hist) >= maxlen + 2
    /\ Len(events) = maxlen
    /\ stats.events >= 1
    /\ stats.events < Len(hist)

\* C2: no event with x = screenWidth or y = screenHeight is decoded or stored: every
\* decoded and every stored event has 0 <= x <= screenWidth-1, 0 <= y <= screenHeight-1.
OnScreen(e) == 0 <= e.x /\ e.x <= screen_width - 1 /\ 0 <= e.y /\ e.y <= screen_height - 1
C2_OnlyOnScreenEvents ==
    /\ \A k \in 1..Len(rcv.events_to_add) : OnScreen(rcv.events_to_add[k])
    /\ \A k \in 1..Len(events) : OnScreen(events[k])

\* the positions of the receive thread at which the datagram in rcv.data is decoded
Decoded == {"batch_lock", "batch_append", "batch_count", "stats_check"}

SameFields(e, r) ==
    e.timestamp = r.timestamp /\ e.x = r.x /\ e.y = r.y /\ e.polarity = r.polarity

InWindow(q, cutoff) == {k \in 1..Len(q) : q[k].received_time >= cutoff}

\* res is q restricted to the indexes in S, in q's order
IsRestriction(res, q, S) ==
    /\ Len(res) = Cardinality(S)
    /\ \A k \in S : res[Cardinality({m \in S : m <= k})] = q[k]

\* C4: get_recent_events with window w, reading the clock at time now, returns exactly
\* the stored events with received_time >= now - w, no others, in insertion order.
C4_QueryReturnsWindow ==
    [][(mpc = "q_body" /\ mpc' # "q_body") =>
           IsRestriction(con'.recent_events, events, InWindow(events, now - con.time_window))]_vars

\* a query returned some but not all of the store, one event exactly at the cutoff
C4_Witness ==
    /\ mpc = "q_again"
    /\ ~written
    /\ Len(con.recent_events) < Len(events)
    /\ \E k \in 1..Len(con.recent_events) :
           con.recent_events[k].received_time = con.q_time - con.time_window

\* C5: a window query does not mutate the store: the steps of get_recent_events leave
\* the deque, its capacity and the packet/event/byte counters as they were, and two
\* queries with the same window that read the same time, with no write to the store
\* in between, return the same events.
C5_QueryDoesNotMutate ==
    /\ [][(mpc \in {"q_lock", "q_body"} /\ mpc' # mpc) =>
              (events' = events /\ maxlen' = maxlen /\ stats' = stats)]_vars
    /\ [](mpc = "q_done" /\ ~written /\ con.first_time = con.q_time =>
              con.recent_events = con.first_events)

\* two queries at the same time returned the same non-empty part of the store
C5_Witness ==
    /\ mpc = "q_done"
    /\ ~written
    /\ con.first_time = con.q_time
    /\ con.first_events # <<>>
    /\ con.recent_events = con.first_events
    /\ Len(con.first_events) < Len(events)
    /\ stats.events >= 1

\* the clock readings stamped on the events of q
Stamps(q) == [k \in 1..Len(q) |-> q[k].received_time]

\* the active dot of event r at opacity a (in 1/1000)
Dot(r, a) == [x |-> r.x, y |-> r.y, polarity |-> r.polarity, alpha |-> a]

\* C6: with capacity 4 and a fade window of 0.1 s, after A, B, C, D, E were inserted
\* with received times 0.00, 0.02, 0.05, 0.12, 0.15 the store holds exactly B, C, D, E
\* in that order, and the render tick that reads the clock at 0.16 yields exactly
\* D with alpha 0.6 and E with alpha 0.9.
C6_FadeScenario ==
    (maxlen = 4 /\ Stamps(hist) = FadeTimes) =>
        /\ Len(events) = 4
        /\ \A k \in 1..4 : /\ SameFields(events[k], FadeRecs[k + 1])
                            /\ events[k].received_time = FadeTimes[k + 1]
        /\ (mpc = "read_stats" /\ con.current_time = 16 /\ con.q_time = 16) =>
               con.active_dots = <<Dot(FadeRecs[4], 600), Dot(FadeRecs[5], 900)>>

\* the five inserts happened at the scenario's times and the tick at 0.16 has projected
C6_Witness ==
    /\ maxlen = 4
    /\ Stamps(hist) = FadeTimes
    /\ mpc = "read_stats"
    /\ con.current_time = 16
    /\ con.q_time = 16
    /\ Len(con.active_dots) = 2

RECURSIVE InsertAll(_, _, _, _)
InsertAll(q, recs, stamp, cap) ==
    IF recs = <<>> THEN q
    ELSE InsertAll(DequeAppend(q, EventDict(Head(recs), stamp), cap), Tail(recs), stamp, cap)

\* the receive thread is between taking and releasing the lock for a batch
InBatch == rpc \in {"batch_append", "batch_count"}

\* C8: while the batch decoded from one datagram is being inserted, the store that a
\* window query of the render thread scans holds none or all of the batch, never a
\* part of it, and once the batch is in, the store is what inserting its events one
\* by one, in order, into the store as it was before the batch would have given.
C8_BatchAtomic ==
    /\ (mpc = "q_body" /\ InBatch) =>
           \/ events = rcv.batch_pre
           \/ events = InsertAll(rcv.batch_pre, rcv.events_to_add, rcv.stamp, maxlen)
    /\ mpc = "q_body" => ~(rpc = "batch_append" /\ rcv.i > 1)
    /\ rpc = "batch_count" =>
           events = InsertAll(rcv.batch_pre, rcv.events_to_add, rcv.stamp, maxlen)

\* a query is waiting for the lock while one of a batch's two events is in the store
C8_Witness ==
    /\ mpc = "q_lock"
    /\ con.op = "update"
    /\ rpc = "batch_append"
    /\ Len(rcv.events_to_add) = 2
    /\ rcv.i = 2
    /\ rcv.batch_pre # <<>>

\* what the receive thread touches at its position: the deque, a counter
RecvAccess ==
    CASE rpc = "batch_append" -> {"events"}
      [] rpc = "batch_count" -> {"stats.events"}
      [] rpc = "count" -> {"stats.packets", "stats.bytes"}
      [] OTHER -> {}

\* what the main thread touches at its position
MainAccess ==
    CASE mpc \in {"q_body", "a_body", "c_body"} -> {"events"}
      [] mpc = "read_stats" -> {"stats.events", "stats.packets", "stats.bytes"}
      [] OTHER -> {}

\* C9: every access of the receive thread and of the render thread to the deque or
\* to the shared counters is made holding the store's lock: in no state do the two
\* threads touch the same one at the same time with one of them outside the lock.
C9_AccessUnderLock ==
    RecvAccess \cap MainAccess # {} => (lockHolder = "recv" /\ lockHolder = "main")

\* C10: after stop() is called on a started receiver the receive loop ends and stop()
\* returns; it returns only once the thread is joined, and once it has returned no
\* datagram is processed and the store is left as it is.
C10_StopTerminates ==
    /\ (mpc = "stop_close") ~> (con.stopped /\ rpc = "done")
    /\ [](con.stopped => rpc = "done")
    /\ [][con.stopped => (processed' = processed /\ events' = events)]_vars

\* stop() has returned on a receiver that had decoded and stored a datagram
C10_Witness ==
    /\ con.stopped
    /\ rpc = "done"
    /\ sock.state = "closed"
    /\ processed # {}
    /\ events # <<>>

\* C11: stop() leaves the event store intact: from the moment the receive loop has
\* terminated, and over the steps of stop() itself, the deque and the packet, event
\* and byte counters keep their values, so after stop() returns they are what they
\* were when the loop ended; the lock is free then, and a window query made after
\* stop() returns the events of its window.
C11_StopLeavesStore ==
    /\ [][rpc = "done" => (events' = events /\ stats' = stats /\ maxlen' = maxlen)]_vars
    /\ [][(mpc \in {"stop_close", "stop_join"} /\ mpc' # mpc) =>
              (events' = events /\ stats' = stats)]_vars
    /\ [](rpc = "done" => lockHolder # "recv")
    /\ [][(con.stopped /\ mpc = "q_body" /\ mpc' # "q_body") =>
              IsRestriction(con'.recent_events, events,
                            InWindow(events, now - con.time_window))]_vars

\* after stop() returned, a render tick has queried the store and got its events
C11_Witness ==
    /\ con.stopped
    /\ rpc = "done"
    /\ mpc = "project"
    /\ con.recent_events # <<>>
    /\ con.recent_events = events
    /\ stats.packets >= 1

\* C12: the packet, event and byte counters never decrease: no step of the receiver's
\* life (insert, batch insert, query, clear, drain, statistics, stop) lowers or
\* resets any of them.
C12_CountersMonotone ==
    [][/\ stats'.packets >= stats.packets
       /\ stats'.events >= stats.events
       /\ stats'.bytes >= stats.bytes]_vars

\* the counters have counted a datagram and its events, and the store was cleared
\* and the receiver stopped afterwards
C12_Witness ==
    /\ stats.packets >= 1
    /\ stats.events >= 1
    /\ stats.bytes >= 1
    /\ events = <<>>
    /\ con.stopped

\* C13: every insert increments the event counter: whenever no insert is under way
\* (the lock is free), the event counter equals the number of events ever inserted
\* into the store by add_event and by batch inserts, the evicted ones included.
\* (Stated where the store is never cleared, so that hist holds every insert.)
C13_EventCounterCountsInserts ==
    lockHolder = "none" => stats.events = Len(hist)

\* C14: a datagram shorter than 8 bytes decodes to zero events and raises nothing:
\* the step of _process_packet on it leaves the deque, the counters and the latency
\* samples as they were and returns to the receive loop, which counts the packet and
\* goes on; the loop does not end while running is set.
C14_ShortDatagramIgnored ==
    /\ [][(rpc = "process" /\ Len(rcv.data) < 8 /\ rpc' # "process") =>
              /\ rpc' = "count"
              /\ events' = events
              /\ stats' = stats
              /\ packet_latencies' = packet_latencies
              /\ rcv'.events_to_add = <<>>]_vars
    /\ [][(rpc = "count" /\ Len(rcv.data) < 8 /\ rpc' # "count") =>
              /\ rpc' \in {"loop", "drain_start"}
              /\ events' = events
              /\ stats'.events = stats.events
              /\ packet_latencies' = packet_latencies]_vars
    /\ [](running => rpc # "done")

\* a 3-byte datagram was received after a well-formed one and has been counted
C14_Witness ==
    /\ rpc = "loop"
    /\ processed = {1, 2}
    /\ stats.packets = 2
    /\ stats.bytes = 24 + 3
    /\ stats.events = 1
    /\ Len(packet_latencies) = 1
    /\ Len(events) = 1

\* a record beyond the screen: a coordinate larger than the screen's width or height
BeyondScreen(e) == e.x > screen_width \/ e.y > screen_height

C16_ReceiveErrorEndsLoop ==
    /\ [](rcv.fault => rpc = "done")
    /\ [][rpc = "done" => (rpc' = "done" /\ processed' = processed)]_vars
    /\ [][(rpc' = "done") => (events' = events /\ stats' = stats)]_vars
    /\ [](rpc = "done" => lockHolder # "recv")
    /\ [][(rpc = "done" /\ mpc = "q_body" /\ mpc' # "q_body") =>
              IsRestriction(con'.recent_events, events,
                            InWindow(events, now - con.time_window))]_vars

\* the loop ended on an error with the socket open and a datagram still queued, and
\* the render tick has queried the store since
C16_Witness ==
    /\ rcv.fault
    /\ rpc = "done"
    /\ running
    /\ sock.state = "open"
    /\ sockq # <<>>
    /\ processed # {}
    /\ mpc = "project"
    /\ con.recent_events # <<>>

\* C17: when socket creation or bind fails, start() returns False at once, the
\* running flag stays false and no receive thread is started; start() returns True
\* only with the socket bound and the receive thread started.
C17_StartFailure ==
    /\ [][(mpc = "init" /\ mpc' = "exit") =>
              (~running' /\ rpc' = "unstarted" /\ sock'.state \in {"none", "unbound"})]_vars
    /\ [](mpc = "exit" => (~running /\ rpc = "unstarted" /\ sock.state # "open"
                            /\ events = <<>> /\ processed = {}))
    /\ [][(mpc = "init" /\ mpc' \notin {"init", "exit"}) =>
              (running' /\ rpc' = "loop" /\ sock'.state = "open")]_vars
    /\ [](mpc \notin {"init", "exit"} => (rpc # "unstarted" /\ sock.state \in {"open", "closed"}))

\* start() has failed with the socket created and not bound
C17_Witness ==
    /\ mpc = "exit"
    /\ sock.state = "unbound"
    /\ ~running
    /\ rpc = "unstarted"

DrainPcs == {"drain_start", "drain_recv", "drain_restore"}

\* C18: a socket timeout is not an error: the timeout step and the handler's drain
\* leave the deque, the packet/event/byte counters and the latency samples as they
\* are; the thread is back at the loop test, which goes to the next receive unless
\* the stop flag is set; the loop only ends on the stop flag or on a receive error.
C18_TimeoutNotAnError ==
    /\ [][(rpc = "recv" /\ rpc' \in {"loop", "drain_start"}) =>
              (/\ rcv'.timed_out
               /\ events' = events /\ stats' = stats
               /\ packet_latencies' = packet_latencies)]_vars
    /\ [][(rcv.timed_out /\ rpc' # rpc) =>
              (/\ events' = events /\ stats' = stats
               /\ packet_latencies' = packet_latencies
               /\ rpc = "loop" => rpc' = (IF running THEN "recv" ELSE "done")
               /\ rpc \in DrainPcs => rpc' \in {"loop"} \cup DrainPcs)]_vars
    /\ [](rcv.timed_out => rpc \in {"loop", "recv", "done"} \cup DrainPcs)
    /\ [](rpc = "done" => (~running \/ rcv.fault))

\* after one datagram was processed a timeout came, and the thread is at its next
\* receive with the event, the counters and the latency sample kept
C18_Witness ==
    /\ rcv.timed_out
    /\ rpc = "recv"
    /\ running
    /\ sock.state = "open"
    /\ stats.packets >= 1
    /\ events # <<>>
    /\ packet_latencies # <<>>

\* the datagrams read by the drains so far, the running one included
Dropped == rcv.dropped \cup UNION {d.dropped : d \in drains}

\* the datagrams returned by the loop's own recvfrom: those given to the decoder and
\* the one about to be
Taken == processed \cup (IF rpc = "process" THEN {rcv.id} ELSE {})

\* a datagram is with _process_packet or waits for the packet counter
InFlight == rpc \in {"process", "batch_lock", "batch_append", "batch_count",
                     "stats_check", "count"}

\* C19: the datagrams read by the backlog drain are discarded: none of them is ever
\* given to the decoder, every datagram sent is either queued, dropped or decoded,
\* the packet counter counts the decoded ones only, and no step of the drain
\* changes the deque, the packet/event/byte counters or the latency samples.
C19_DrainedAreDiscarded ==
    /\ [](Dropped \cap processed = {})
    /\ [](Dropped \cap Ids(sockq) = {})
    /\ [](Dropped \cap Taken = {})
    /\ [](Dropped \cup Taken \cup Ids(sockq) = 1..sent)
    /\ [](stats.packets = Cardinality(Taken) - (IF InFlight THEN 1 ELSE 0))
    /\ [](stats.events <= 2 * Cardinality(processed))
    /\ [](Len(packet_latencies) <= Cardinality(processed))
    /\ [][(rpc \in DrainPcs) =>
              (/\ events' = events /\ stats' = stats /\ hist' = hist
               /\ packet_latencies' = packet_latencies
               /\ processed' = processed)]_vars

\* a drain has read two datagrams while one datagram only was ever decoded and
\* counted
C19_Witness ==
    /\ rpc = "loop"
    /\ \E d \in drains : Cardinality(d.dropped) >= 2
    /\ Cardinality(processed) = 1
    /\ stats.packets = 1
    /\ stats.events >= 1
    /\ Len(packet_latencies) = 1
    /\ sent = DrainPackets

\* C20: every invocation of the backlog drain terminates and control is back in the
\* receive loop: a read that finds the buffer empty ends it, a read made after more
\* than the budget of 50 ms has passed ends it although datagrams are still queued,
\* and no read goes on to a further read once the budget is exceeded.
C20_DrainTerminates ==
    /\ (rpc \in DrainPcs) ~> (rpc = "loop")
    /\ [][(rpc = "drain_recv" /\ sock.state = "open" /\ sockq = <<>>) =>
              rpc' \in {"drain_recv", "drain_restore"} /\ rcv'.cleared_count = rcv.cleared_count]_vars
    /\ [][(rpc = "drain_recv" /\ rcv'.cleared_count > rcv.cleared_count) =>
              (rpc' = (IF now - rcv.start_time > DrainBudget
                       THEN "drain_restore" ELSE "drain_recv"))]_vars
    /\ [][(rpc = "drain_restore" /\ rpc' # rpc) => rpc' = "loop"]_vars

\* one drain was ended by its budget after reading a datagram that was enqueued
\* while it ran, another one by an empty buffer
C20_Witness ==
    /\ rpc = "loop"
    /\ \E d \in drains : d.exit = "budget" /\ ~d.within /\ d.dropped \ d.pre # {}
    /\ \E d \in drains : d.exit = "empty" /\ d.dropped # {}

\* the events of the tick's query that pass "if age <= DOT_FADE_DURATION", in order:
\* active_dots[k] is the dot made from the k-th of them
ActiveEvents ==
    LET IsActive(e) == Active(con.current_time - e.received_time)
    IN  SelectSeq(LastN(con.recent_events, max_active_dots), IsActive)

\* the age of the event behind active_dots[k], at the tick's clock reading
AgeOfDot(k) == con.current_time - ActiveEvents[k].received_time

\* the render tick has filled active_dots and not yet ended
Projected == mpc = "read_stats" /\ con.op = "update"

\* C21: the alpha of an active dot is exactly 1 when its event has age 0, exactly 0
\* when the age equals the fade window, and of two active events with ages between 0
\* and the fade window the older one has the smaller alpha.
C21_AlphaEndpointsMonotone ==
    Projected =>
        /\ Len(con.active_dots) = Len(ActiveEvents)
        /\ \A k \in 1..Len(con.active_dots) :
               /\ AgeOfDot(k) = 0 => con.active_dots[k].alpha = 1000
               /\ AgeOfDot(k) = DOT_FADE_DURATION => con.active_dots[k].alpha = 0
        /\ \A j, k \in 1..Len(con.active_dots) :
               (0 <= AgeOfDot(j) /\ AgeOfDot(j) < AgeOfDot(k)) =>
                   con.active_dots[j].alpha > con.active_dots[k].alpha

\* one tick shows an event of age 0, one of an age inside the window and one whose
\* age is the fade window itself
C21_Witness ==
    /\ Projected
    /\ Len(con.active_dots) = 3
    /\ AgeOfDot(1) = DOT_FADE_DURATION
    /\ AgeOfDot(2) \in 1..(DOT_FADE_DURATION - 1)
    /\ AgeOfDot(3) = 0

\* C22: whatever path the tick has taken, its active dots are the ones the
\* sequential loop yields for the same recent events and the same clock reading, in
\* the same order; above 100 events that is the result of the chunked parallel path.
C22_ChunkedEqualsSequential ==
    Projected =>
        con.active_dots =
            ProjectEvents(LastN(con.recent_events, max_active_dots), con.current_time)

\* a tick over a batch of 101 events: two chunks of 50 and a last chunk of one
C22_Witness ==
    /\ Projected
    /\ Len(con.recent_events) = ParallelThreshold + 1
    /\ Len(con.active_dots) = ParallelThreshold + 1
    /\ con.active_dots[1].x = 1
    /\ con.active_dots[ParallelThreshold + 1].x = ParallelThreshold + 1

\* the numbered datagrams given to _process_packet that carry a header, in the order
\* of their arrival
Sampled ==
    LET HasHeader(id) == id \in processed /\ ~TooShort(NumberedBytes(id))
    IN  SelectSeq([id \in 1..sent |-> id], HasHeader)

\* the latency of the numbered datagram id, received at the clock reading t
LatencyOf(id, t) == t * TickMicros - id

\* C23: the latency sample window never holds more than 100 samples, and after n
\* packets with a header were processed it holds the latencies of the last
\* min(n, 100) of them in the order of their arrival.
C23_LatencyWindow ==
    /\ Len(packet_latencies) <= max_latency_samples
    /\ LET kept == LastInserted(Sampled, max_latency_samples)
       IN  packet_latencies = [k \in 1..Len(kept) |-> LatencyOf(kept[k], now)]

\* more than 100 packets with a header were processed, short datagrams among them:
\* the window is full and its oldest sample is no longer the first packet's
C23_Witness ==
    /\ Len(Sampled) > max_latency_samples
    /\ Len(packet_latencies) = max_latency_samples
    /\ packet_latencies[1] # LatencyOf(1, now)
    /\ Cardinality(processed) > Len(Sampled)

\* the receive thread is about to run the statistics check of _process_packet
AtStatsCheck == rpc = "stats_check"

\* C24: once a report has been printed, a packet whose statistics check runs when
\* the stats interval (2 s) or more has passed since that report makes the next
\* report be printed.
C24_ReportEveryInterval ==
    [][(AtStatsCheck /\ rpc' # rpc /\ reports # <<>>
         /\ now - reports[Len(reports)].time >= stats_interval)
        => Len(reports') = Len(reports) + 1]_vars

\* a/b = c/d for fractions with positive denominators
SameRate(a, b, c, d) == a * d = c * b

\* C25: from the second report on, the events per second and the throughput of a
\* report are the deltas of the event counter and of the byte counter since the
\* previous report, divided by the time since that report.
C25_RatesAreDeltas ==
    \A k \in 2..Len(reports) :
        LET r == reports[k]
            p == reports[k - 1]
            elapsed == r.time - p.time
        IN  r.rates =>
              /\ SameRate(r.events_per_sec.num, r.events_per_sec.den,
                          (r.total_events - p.total_events) * TicksPerSecond, elapsed)
              /\ SameRate(r.throughput, 1,
                          (r.total_bytes - p.total_bytes) * TicksPerSecond, elapsed)

\* C26: printing a report changes neither the deque, nor the packet/event/byte
\* counters, nor the latency samples; a report has rates only when its duration is
\* positive, no quotient of a report has a zero denominator, and a duration of zero
\* gives a report without rates.
C26_ReportIsPureRead ==
    /\ [][(Len(reports') > Len(reports)) =>
              (/\ events' = events /\ stats' = stats /\ hist' = hist
               /\ packet_latencies' = packet_latencies
               /\ reports'[Len(reports')].total_events = stats.events
               /\ reports'[Len(reports')].total_bytes = stats.bytes
               /\ reports'[Len(reports')].total_packets = stats.packets)]_vars
    /\ [](\A k \in 1..Len(reports) :
             /\ reports[k].rates <=> reports[k].duration > 0
             /\ reports[k].events_per_sec.den > 0
             /\ reports[k].avg_throughput.den > 0
             /\ reports[k].avg_latency.den > 0)

\* a report without rates, printed in the tick in which the receiver was started,
\* and a later report with rates
C26_Witness ==
    /\ Len(reports) = 2
    /\ reports[1].duration = 0 /\ ~reports[1].rates
    /\ reports[2].duration > 0 /\ reports[2].rates
    /\ reports[2].events_per_sec.num > 0
    /\ events # <<>>

\* a step of the receive thread at one of its two counting places
CountingStep ==
    /\ rpc \in {"batch_count", "count"}
    /\ rpc' # rpc
    /\ mpc' = mpc
    /\ con' = con

\* C27: the packet, event and byte counters are written only by the receive-loop
\* thread: every step that changes a counter is a step of _receive_loop or of
\* _process_packet at its counting statements; the steps of the main thread (render
\* tick, add_event, clear) and the step that prints a report leave the counters as they
\* were, and the render tick reads the value the counter has.
C27_CountersWrittenByReceiveLoop ==
    [][/\ (stats' # stats) => CountingStep
       /\ (mpc' # mpc) => stats' = stats
       /\ (Len(reports') > Len(reports)) => stats' = stats
       /\ (mpc = "read_stats" /\ mpc' = "idle") => con'.total_events = stats.events]_vars

\* the receive thread has counted two datagrams and their events and printed a report,
\* the main thread has added an event and the render tick has read the event counter
C27_Witness ==
    /\ stats.packets = 2
    /\ stats.events = 2
    /\ reports # <<>>
    /\ Len(hist) > stats.events
    /\ con.total_events = 2

\* the places of the receive thread between the return of _process_packet's decoding
\* and the counting of the datagram
AfterDecode == {"batch_lock", "batch_append", "batch_count", "stats_check", "count"}

\* the last n events ever inserted
LastInserts(n) == SubSeq(hist, Len(hist) - n + 1, Len(hist))

\* C28: every datagram the receive of the main loop returns is counted once, whatever
\* it decodes to: the counting step adds exactly 1 to the packet counter and the
\* length of the datagram to the byte counter and no other step changes them, so the
\* packet counter is the number of datagrams taken that are past the counting step;
\* when the counting step runs, the datagram has been through _process_packet and
\* the events decoded from it are the last ones inserted and are in the event counter.
C28_EveryDatagramCountedAfterInsert ==
    /\ [][(rpc = "count" /\ rpc' # rpc) =>
              /\ stats'.packets = stats.packets + 1
              /\ stats'.bytes = stats.bytes + Len(rcv.data)
              /\ stats'.events = stats.events
              /\ events' = events /\ hist' = hist]_vars
    /\ [][(stats'.packets # stats.packets \/ stats'.bytes # stats.bytes) =>
              rpc = "count"]_vars
    /\ [](stats.packets = Cardinality(processed) - (IF rpc \in AfterDecode THEN 1 ELSE 0))
    /\ [](rpc = "count" =>
            LET decoded == IF Len(rcv.data) < HeaderSize THEN <<>>
                           ELSE DecodeEvents(rcv.data)
            IN  /\ rcv.id \in processed
                /\ rcv.events_to_add = decoded
                /\ Len(hist) >= Len(decoded)
                /\ stats.events = Len(hist)
                /\ \A k \in 1..Len(decoded) :
                      SameFields(LastInserts(Len(decoded))[k], decoded[k]))

\* a 27-byte datagram whose only record is off the screen has been counted, and a
\* second datagram is about to be, its events inserted
C28_Witness ==
    /\ rpc = "count"
    /\ stats.packets = 1
    /\ stats.bytes = 27
    /\ stats.events >= 1
    /\ hist # <<>>
    /\ rcv.events_to_add # <<>>

\* event e has been inserted into the store
Stored(e) == \E j \in 1..Len(hist) : hist[j] = e

\* C29: when a render tick has filled active_dots, every dot is made from an event
\* that was inserted into the store, carries its x, y and polarity, the age of that
\* event at the tick's clock reading is at most the fade window, and its alpha lies
\* in [0, 1]; an event stamped by the receive thread after the tick read the clock
\* has a negative age and alpha exactly 1. No event returned by the tick's query is
\* left out: the query's own, later clock reading makes its cutoff at least as strict.
C29_ActiveDotsWithinWindow ==
    Projected =>
        /\ Len(con.active_dots) = Len(con.recent_events)
        /\ Len(con.active_dots) = Len(ActiveEvents)
        /\ \A k \in 1..Len(con.active_dots) :
               LET dot == con.active_dots[k]
                   event == ActiveEvents[k]
               IN  /\ Stored(event)
                   /\ dot.x = event.x /\ dot.y = event.y /\ dot.polarity = event.polarity
                   /\ AgeOfDot(k) <= DOT_FADE_DURATION
                   /\ dot.alpha \in 0..1000
                   /\ AgeOfDot(k) < 0 => dot.alpha = 1000

\* a tick read the clock, then the receive thread stamped an event, then the tick
\* queried the store: the dot of that event has a negative age, and an event older
\* than the fade window is in the store and not among the dots
C29_Witness ==
    /\ Projected
    /\ Len(con.active_dots) = 1
    /\ AgeOfDot(1) < 0
    /\ Len(events) = 2
    /\ con.current_time - events[1].received_time > DOT_FADE_DURATION

\* the step of clear() that runs "self.events.clear()" and leaves the with block
ClearStep == mpc = "c_body" /\ mpc' = "idle"

\* C30: clear() empties the store while it holds the store lock (no batch insert of the
\* receive thread is under way) and changes nothing else: the counters, the capacity,
\* the socket, the running flag and the receiver's fields keep their values, and a
\* window query on the store it leaves returns no events, whatever the window. Hence
\* the store always holds the last `capacity` events inserted since the last clear,
\* oldest first, as a store that was empty from the beginning would.
C30_ClearOnlyEmptiesStore ==
    /\ [][ClearStep =>
              /\ lockHolder = "main" /\ lockHolder' = "none"
              /\ rpc \notin {"batch_append", "batch_count"}
              /\ events' = <<>>
              /\ \A w \in Windows \cup {DOT_FADE_DURATION} :
                     RecentEvents(events', now - w) = <<>>
              /\ UNCHANGED <<stats, maxlen, running, sock, sockq, now, sent, rpc, rcv,
                             recvObjVars, toolVars>>]_vars
    /\ [](mpc = "c_body" => lockHolder = "main")
    /\ [](lockHolder = "none" =>
            /\ Len(events) = Min(Len(hist), maxlen)
            /\ \A k \in 1..Len(events) : events[k] = hist[Len(hist) - Len(events) + k])

\* the store was cleared after the receive thread had inserted four events, and three
\* events were added since: the first of them is evicted, the counter still shows four
C30_Witness ==
    /\ mpc = "idle"
    /\ lockHolder = "none"
    /\ stats.events = 4
    /\ Len(hist) = maxlen + 1
    /\ Len(events) = maxlen
    /\ events[1] = hist[2]

\* C31: whenever the receive loop is at its main receive the socket is in
\* blocking-with-timeout mode: a drain that returns with the socket open has restored
\* that mode, on its normal exits and in its exception handler; the non-blocking
\* mode exists only inside the drain, and the loop is never ended by a would-block
\* condition: a main receive that raises does so on the closed socket.
C31_DrainRestoresMode ==
    /\ [](rpc = "recv" => sock.mode = "timeout")
    /\ [](sock.mode = "nonblocking" =>
             rpc \in {"drain_recv", "drain_restore"} \/ sock.state = "closed")
    /\ [][(rpc \in {"drain_start", "drain_recv", "drain_restore"} /\ rpc' = "loop"
             /\ sock'.state = "open") => sock'.mode = "timeout"]_vars
    /\ [][(rpc = "recv" /\ rpc' = "done") => sock.state = "closed"]_vars

\* after one drain that ended on an empty buffer and one that ended through an
\* exception of its recvfrom, the loop is at its main receive on the open socket
C31_Witness ==
    /\ rpc = "recv"
    /\ sock.state = "open"
    /\ \E a, b \in drains : a.exit = "empty" /\ b.exit = "fault"

\* C32: the timeout set by start() (50 ms) is the timeout of every main-loop receive:
\* whenever the loop is at its main receive on the open socket, the socket's timeout
\* is StartTimeout.
C32_TimeoutStays ==
    (rpc = "recv" /\ sock.state = "open") => sock.timeout = StartTimeout

\* C33: running is true only while the receive loop is alive: in every state where
\* the receive thread has ended, running is false (the panel of main_loop shows
\* "Connected" exactly when running is true).
C33_RunningOnlyWhileAlive ==
    rpc = "done" => ~running

\* q is in the order of its stamps, oldest first
StampOrdered(q) == \A k \in 1..(Len(q) - 1) : q[k].received_time <= q[k + 1].received_time

\* res is the last Len(res) elements of q
IsSuffix(res, q) ==
    /\ Len(res) <= Len(q)
    /\ res = SubSeq(q, Len(q) - Len(res) + 1, Len(q))

visVars == <<events, maxlen, lockHolder, stats, running, sock, sockq, now, sent, rpc, rcv,
             mpc, con, last_buffer_clear, last_stats_time, packet_latencies, hist,
             written, processed, drains, perf, reports>>

\* threading.Thread.is_alive
IsAlive(t) == t # 0 /\ thr[t].pc \notin {"unborn", "dead"}

\* the thread object the next threading.Thread(...) creates
NewThread == Cardinality({t \in QThreads : thr[t].pc # "unborn"}) + 1

\* a thread blocked in the decoder (its constructor, or waiting for the next chunk)
InDecoder(t) == t # 0 /\ thr[t].pc \in {"open", "iter"}

\* start(): nothing when already running, else running is set and a new consumer thread started
QStart(c) ==
    /\ caller[c].pc = "idle"
    /\ IF er.running \/ ~HAS_EVENT_STREAM
       THEN UNCHANGED <<er, thr>>
       ELSE /\ NewThread \in QThreads
            /\ er' = [er EXCEPT !.running = TRUE, !.consumer_thread = NewThread]
            /\ thr' = [thr EXCEPT ![NewThread].pc = "open"]
    /\ UNCHANGED <<event_queue, caller, fed, dequeued, visVars, testVars>>

\* stop(): nothing when not running, else running is cleared and, when the consumer
\* thread is alive, None is put on the queue and the thread joined
QStopBegin(c) ==
    /\ caller[c].pc = "idle"
    /\ IF ~er.running
       THEN UNCHANGED <<er, event_queue, caller>>
       ELSE /\ er' = [er EXCEPT !.running = FALSE]
            /\ IF IsAlive(er.consumer_thread)
               THEN /\ event_queue' = Append(event_queue, NoneItem(0))
                    /\ caller' = [caller EXCEPT ![c].pc = "join",
                                                ![c].target = er.consumer_thread]
               ELSE UNCHANGED <<event_queue, caller>>
    /\ UNCHANGED <<thr, fed, dequeued, visVars, testVars>>

\* join(timeout=1.0) returns because the thread has ended
QStopJoin(c) ==
    /\ caller[c].pc = "join"
    /\ ~IsAlive(caller[c].target)
    /\ caller' = [caller EXCEPT ![c].pc = "idle", ![c].target = 0]
    /\ UNCHANGED <<er, event_queue, thr, fed, dequeued, visVars, testVars>>

\* join(timeout=1.0) returns after one second with the thread still blocked in the decoder
QStopJoinTimeout(c) ==
    /\ caller[c].pc = "join"
    /\ InDecoder(caller[c].target)
    /\ caller' = [caller EXCEPT ![c].pc = "idle", ![c].target = 0]
    /\ UNCHANGED <<er, event_queue, thr, fed, dequeued, visVars, testVars>>

\* _consume_events_to_queue: event_stream.UdpDecoder(port) is entered
DecoderOpen(t) ==
    /\ thr[t].pc = "open"
    /\ thr' = [thr EXCEPT ![t].pc = "iter"]
    /\ UNCHANGED <<er, event_queue, caller, fed, dequeued, visVars, testVars>>

\* the decoder raises, in its constructor or while waiting for a chunk
DecoderFail(t) ==
    /\ thr[t].pc \in {"open", "iter"}
    /\ thr' = [thr EXCEPT ![t].pc = "final"]
    /\ UNCHANGED <<er, event_queue, caller, fed, dequeued, visVars, testVars>>

\* "for chunk in decoder" yields a chunk of n events
DecoderYield(t) ==
    /\ thr[t].pc = "iter"
    /\ fed < QueueFed
    /\ \E n \in 0..QueueChunkLen : thr' = [thr EXCEPT ![t].pc = "check", ![t].chunk = n]
    /\ fed' = fed + 1
    /\ UNCHANGED <<er, event_queue, caller, dequeued, visVars, testVars>>

\* "for chunk in decoder" ends: the decoder is exhausted
DecoderEnd(t) ==
    /\ thr[t].pc = "iter"
    /\ thr' = [thr EXCEPT ![t].pc = "final"]
    /\ UNCHANGED <<er, event_queue, caller, fed, dequeued, visVars, testVars>>

\* "if not self.running: break"
CheckRunning(t) ==
    /\ thr[t].pc = "check"
    /\ thr' = [thr EXCEPT ![t] = IF er.running THEN [@ EXCEPT !.pc = "put"]
                                 ELSE [pc |-> "final", chunk |-> 0]]
    /\ UNCHANGED <<er, event_queue, caller, fed, dequeued, visVars, testVars>>

\* a non-empty chunk is put on the queue, an empty one slept over
PutChunk(t) ==
    /\ thr[t].pc = "put"
    /\ event_queue' = IF thr[t].chunk > 0
                      THEN Append(event_queue, ChunkItem(thr[t].chunk, t))
                      ELSE event_queue
    /\ thr' = [thr EXCEPT ![t] = [pc |-> "iter", chunk |-> 0]]
    /\ UNCHANGED <<er, caller, fed, dequeued, visVars, testVars>>

\* "finally: output_queue.put(None)"
PutSentinel(t) ==
    /\ thr[t].pc = "final"
    /\ event_queue' = Append(event_queue, NoneItem(t))
    /\ thr' = [thr EXCEPT ![t].pc = "dead"]
    /\ UNCHANGED <<er, caller, fed, dequeued, visVars, testVars>>

\* process_events(d): {} when not running, else the loop is entered with its deadline
PEBegin(c, d) ==
    /\ caller[c].pc = "idle"
    /\ caller' = [caller EXCEPT ![c] =
                    IF ~er.running
                    THEN [@ EXCEPT !.result = [NoResult EXCEPT !.kind = "empty"], !.got = <<>>]
                    ELSE [@ EXCEPT !.pc = "pe_loop", !.max_duration = d, !.expired = FALSE,
                                   !.got = <<>>, !.result = NoResult]]
    /\ UNCHANGED <<er, event_queue, thr, fed, dequeued, visVars, testVars>>

\* time.time() reaches end_time, which is finite only for max_duration > 0
PEDeadline(c) ==
    /\ caller[c].pc \in {"pe_loop", "pe_get", "pe_proc"}
    /\ caller[c].max_duration > 0
    /\ ~caller[c].expired
    /\ caller' = [caller EXCEPT ![c].expired = TRUE]
    /\ UNCHANGED <<er, event_queue, thr, fed, dequeued, visVars, testVars>>

\* "while self.running and time.time() < end_time"
PELoop(c) ==
    /\ caller[c].pc = "pe_loop"
    /\ caller' = [caller EXCEPT ![c].pc =
                    IF er.running /\ ~caller[c].expired THEN "pe_get" ELSE "pe_ret"]
    /\ UNCHANGED <<er, event_queue, thr, fed, dequeued, visVars, testVars>>

\* event_queue.get returns the oldest item; None leaves the loop
PEGet(c) ==
    /\ caller[c].pc = "pe_get"
    /\ event_queue # <<>>
    /\ event_queue' = Tail(event_queue)
    /\ dequeued' = Append(dequeued, Head(event_queue))
    /\ caller' = [caller EXCEPT ![c].chunk = IF Head(event_queue).kind = "None" THEN NoneItem(0)
                                            ELSE Head(event_queue),
                                ![c].got = Append(@, Head(event_queue)),
                                ![c].pc = IF Head(event_queue).kind = "None"
                                          THEN "pe_ret" ELSE "pe_proc"]
    /\ UNCHANGED <<er, thr, fed, visVars, testVars>>

\* event_queue.get(timeout=1.0) raises queue.Empty: "continue"
PEGetTimeout(c) ==
    /\ caller[c].pc = "pe_get"
    /\ event_queue = <<>>
    /\ caller' = [caller EXCEPT ![c].pc = "pe_loop"]
    /\ UNCHANGED <<er, event_queue, thr, fed, dequeued, visVars, testVars>>

\* a _process_chunk that counts events only
ProcessChunkNoCount(c) ==
    /\ caller[c].pc = "pe_proc"
    /\ er' = [er EXCEPT !.total_events = @ + caller[c].chunk.len]
    /\ caller' = [caller EXCEPT ![c].pc = "pe_loop", ![c].chunk = NoneItem(0)]
    /\ UNCHANGED <<event_queue, thr, fed, dequeued, visVars, testVars>>

\* _process_chunk: the totals
ProcessChunk(c) ==
    /\ caller[c].pc = "pe_proc"
    /\ er' = [er EXCEPT !.total_chunks = @ + 1, !.total_events = @ + caller[c].chunk.len]
    /\ caller' = [caller EXCEPT ![c].pc = "pe_loop", ![c].chunk = NoneItem(0)]
    /\ UNCHANGED <<event_queue, thr, fed, dequeued, visVars, testVars>>

\* KeyboardInterrupt while the loop waits: caught at 158
PEInterrupt(c) ==
    /\ caller[c].pc \in {"pe_loop", "pe_get"}
    /\ caller' = [caller EXCEPT ![c].pc = "pe_ret"]
    /\ UNCHANGED <<er, event_queue, thr, fed, dequeued, visVars, testVars>>

\* the statistics dictionary is returned
PEReturn(c) ==
    /\ caller[c].pc = "pe_ret"
    /\ caller' = [caller EXCEPT ![c] = [CallerIdle EXCEPT
                    !.result = [kind |-> "stats", total_chunks |-> er.total_chunks,
                                total_events |-> er.total_events]]]
    /\ UNCHANGED <<er, event_queue, thr, fed, dequeued, visVars, testVars>>

\* what the consumer threads do on their own
ConsumerStep(t) ==
    \/ DecoderOpen(t)
    \/ CheckRunning(t)
    \/ PutChunk(t)
    \/ PutSentinel(t)

\* what process_events and stop() do once called
CallStep(c) ==
    \/ QStopJoin(c)
    \/ QStopJoinTimeout(c)
    \/ PELoop(c)
    \/ PEGet(c)
    \/ PEGetTimeout(c)
    \/ ProcessChunk(c)
    \/ PEReturn(c)

\* the durations process_events is called with: unlimited, and limited
Durations == {0, 1}

NextQueue ==
    \/ QStart("main")
    \/ \E c \in QCallers : QStopBegin(c)
    \/ \E d \in Durations : PEBegin("main", d)
    \/ PEDeadline("main")
    \/ PEInterrupt("main")
    \/ \E c \in QCallers : CallStep(c)
    \/ \E t \in QThreads : ConsumerStep(t)
    \/ \E t \in QThreads : DecoderYield(t)
    \/ \E t \in QThreads : DecoderEnd(t)
    \/ \E t \in QThreads : DecoderFail(t)

SpecQueue == Init /\ [][NextQueue]_vars

\* the receiver driven by its main thread alone
NextTotals ==
    \/ (er.running \/ NewThread <= TotalsThreads) /\ QStart("main")
    \/ QStopBegin("main")
    \/ \E d \in Durations : PEBegin("main", d)
    \/ PEDeadline("main")
    \/ PEInterrupt("main")
    \/ CallStep("main")
    \/ \E t \in QThreads : ConsumerStep(t)
    \/ \E t \in QThreads : fed < TotalsFed /\ DecoderYield(t)
    \/ \E t \in QThreads : DecoderEnd(t)
    \/ \E t \in QThreads : DecoderFail(t)

SpecTotals == Init /\ [][NextTotals]_vars

\* the scheduler runs every thread that can take a step; what the network and the
\* callers do next is not forced
SpecQueueLive ==
    /\ SpecQueue
    /\ \A c \in QCallers : WF_vars(CallStep(c))
    /\ \A t \in QThreads : WF_vars(ConsumerStep(t))
    /\ WF_vars(PEDeadline("main"))

\* the consumer threads that are alive
AliveThreads == {t \in QThreads : IsAlive(t)}

\* C35: over any sequence of start() and stop() calls at most one consumer thread is
\* alive and feeding the queue: a start() while running creates no thread, and a
\* start() after stop() does not run beside the previous consumer thread
C35_OneConsumerThread ==
    /\ [](Cardinality(AliveThreads) <= 1)
    /\ [][(er.running /\ thr' # thr) => AliveThreads' \subseteq AliveThreads]_vars
    /\ [][(~er.running /\ er'.running) => AliveThreads' = {er'.consumer_thread}]_vars

\* everything ever put on the queue, in the order it was put
Enqueued == dequeued \o event_queue

\* process_events is being executed
PEActive == caller["main"].pc \in {"pe_loop", "pe_get", "pe_proc", "pe_ret"}

\* the consumer thread of the receiver has ended
ConsumerExited == er.consumer_thread # 0 /\ thr[er.consumer_thread].pc = "dead"

\* thread t put exactly one None, after every chunk it put
SentinelLast(t) ==
    \E i \in 1..Len(Enqueued) :
        /\ Enqueued[i] = NoneItem(t)
        /\ \A k \in 1..Len(Enqueued) : Enqueued[k].by = t => k <= i

\* C36 (a): a consumer thread that has exited has put one None, after all its chunks,
\* and a thread that has not exited has put none
C36_SentinelOnExit ==
    \A t \in QThreads :
        IF thr[t].pc = "dead" THEN SentinelLast(t)
        ELSE \A k \in 1..Len(Enqueued) : Enqueued[k] # NoneItem(t)

\* C36 (b): the queue is first in, first out: what was put keeps its order, and
\* process_events takes from the front
C36_Fifo ==
    [][/\ Len(Enqueued') >= Len(Enqueued)
       /\ SubSeq(Enqueued', 1, Len(Enqueued)) = Enqueued
       /\ Len(dequeued') >= Len(dequeued)]_vars

\* C36 (c): a call of process_events leaves its loop with the first None it takes, and
\* processes no chunk after it
C36_NothingAfterSentinel ==
    LET got == caller["main"].got
    IN  /\ \A k \in 1..(Len(got) - 1) : got[k].kind # "None"
        /\ (got # <<>> /\ got[Len(got)].kind = "None") =>
               caller["main"].pc \notin {"pe_loop", "pe_get", "pe_proc"}
        /\ caller["main"].pc = "pe_proc" => caller["main"].chunk.kind = "chunk"

\* C36 (d): a call of process_events returns once the consumer thread has exited or
\* stop() has been called
C36_Returns == (PEActive /\ (ConsumerExited \/ ~er.running)) ~> ~PEActive

\* C36: a consumer thread that exits puts a None after all its chunks; process_events
\* takes the items first in, first out and returns with the first None; so it returns
\* after the consumer thread has exited or stop() was called, and processes no chunk
\* after a None
C36_SentinelEndsProcessing ==
    /\ []C36_SentinelOnExit
    /\ C36_Fifo
    /\ []C36_NothingAfterSentinel
    /\ C36_Returns

\* the chunks process_events has taken from the queue
ChunksTaken == SelectSeq(dequeued, LAMBDA it : it.kind = "chunk")

\* the number of events in the chunks process_events has taken
EventsTaken == SumSeq([k \in 1..Len(ChunksTaken) |-> ChunksTaken[k].len])

TestHeaderSize == 8
\* event_size = 32
TestEventSize == 32
\* "if len(event_bytes) >= 17"
TestMinEvent == 17
\* "0 <= x <= 1920 and 0 <= y <= 1080"
TestXMax == 1920
TestYMax == 1080

\* a DVSEvent of the sender: timestamp(8) + x(4) + y(4) + polarity(1) + on and padding(15)
TestRecord(x, y, polarity) ==
    PackLE(7, 8) \o PackLE(x, 4) \o PackLE(y, 4) \o <<polarity>> \o [i \in 1..15 |-> 0]

\* the datagrams the network delivers: too short for a header, a bare header, one event,
\* an event at the edge and one beyond it, an event and a cut-off record
TestDatagrams ==
    { <<1, 2, 3>>,
      PackLE(1, 8),
      PackLE(2, 8) \o TestRecord(10, 20, 1),
      PackLE(3, 8) \o TestRecord(TestXMax, TestYMax, 0) \o TestRecord(TestXMax + 1, 5, 1),
      PackLE(4, 8) \o TestRecord(3, 4, 2) \o SubSeq(TestRecord(5, 6, 1), 1, 20) }

\* the fields process_packet unpacks from one event's bytes
TestParse(event_bytes) ==
    [timestamp |-> UnpackLE(Slice(event_bytes, 0, 8)),
     x |-> UnpackLE(Slice(event_bytes, 8, 12)),
     y |-> UnpackLE(Slice(event_bytes, 12, 16)),
     polarity |-> UnpackLE(Slice(event_bytes, 16, 17))]

\* "if 0 <= x <= 1920 and 0 <= y <= 1080"
TestValid(r) == 0 <= r.x /\ r.x <= TestXMax /\ 0 <= r.y /\ r.y <= TestYMax

\* defaultdict(int): d[k] += 1
Incr(d, k) ==
    [p \in DOMAIN d \cup {k} |-> IF p = k THEN (IF k \in DOMAIN d THEN d[k] ELSE 0) + 1 ELSE d[p]]

\* the whole records in the payload of a datagram
WholeRecords(d) ==
    IF Len(d) < TestHeaderSize THEN 0 ELSE (Len(d) - TestHeaderSize) \div TestEventSize

\* stop(): running is cleared and the socket, if there is one, closed
Stopped(r) ==
    [r EXCEPT !.running = FALSE, !.socket = IF r.socket = "none" THEN "none" ELSE "closed"]

\* run() calls start(), which binds the socket and sets running
RunStart ==
    /\ trun.pc = "idle"
    /\ tr' = [tr EXCEPT !.socket = "open", !.running = TRUE]
    /\ trun' = [trun EXCEPT !.pc = "loop"]
    /\ UNCHANGED <<twire, visVars, queueVars>>

\* start() fails, creating the socket (s = "none") or binding it (s = "open"): run() returns False
RunStartFail(s) ==
    /\ trun.pc = "idle"
    /\ tr' = [tr EXCEPT !.socket = s]
    /\ trun' = [trun EXCEPT !.pc = "done", !.ret = "False"]
    /\ twire' = [twire EXCEPT !.start_failed = TRUE]
    /\ UNCHANGED <<visVars, queueVars>>

\* signal_handler: receiver.stop()
SignalHandler ==
    /\ trun.pc # "done"
    /\ tr' = Stopped(tr)
    /\ UNCHANGED <<trun, twire, visVars, queueVars>>

\* "while self.running"
RunLoop ==
    /\ trun.pc = "loop"
    /\ trun' = [trun EXCEPT !.pc = IF tr.running THEN "recv" ELSE "finally"]
    /\ UNCHANGED <<tr, twire, visVars, queueVars>>

\* recvfrom returns datagram d: it is counted, and process_packet entered
RunRecv(d) ==
    /\ trun.pc = "recv"
    /\ tr.socket = "open"
    /\ twire.received < RunPackets
    /\ tr' = [tr EXCEPT !.packets_received = @ + 1, !.bytes_received = @ + Len(d)]
    /\ twire' = [twire EXCEPT !.received = @ + 1, !.whole = @ + WholeRecords(d)]
    /\ trun' = IF Len(d) < TestHeaderSize
               THEN [trun EXCEPT !.pc = "loop"]
               ELSE [trun EXCEPT !.pc = "pp", !.data = d, !.offset = 0, !.events_processed = 0]
    /\ UNCHANGED <<visVars, queueVars>>

\* recvfrom raises socket.timeout: "continue"
RunTimeout ==
    /\ trun.pc = "recv"
    /\ tr.socket = "open"
    /\ trun' = [trun EXCEPT !.pc = "loop"]
    /\ UNCHANGED <<tr, twire, visVars, queueVars>>

\* a receive error that is printed whether or not the receiver is running
RunRecvErrorLoud(cause) ==
    /\ trun.pc = "recv"
    /\ cause = IF tr.socket = "open" THEN "fault" ELSE "closed"
    /\ trun' = [trun EXCEPT !.pc = "finally", !.errors = Append(@, cause)]
    /\ UNCHANGED <<tr, twire, visVars, queueVars>>

\* recvfrom raises another exception, on the open socket (cause "fault") or because the
\* socket has been closed (cause "closed"): printed when running, then "break"
RunRecvError(cause) ==
    /\ trun.pc = "recv"
    /\ cause = IF tr.socket = "open" THEN "fault" ELSE "closed"
    /\ trun' = [trun EXCEPT !.pc = "finally",
                            !.errors = IF tr.running THEN Append(@, cause) ELSE @]
    /\ twire' = [twire EXCEPT !.unreported = IF tr.running THEN @ ELSE Append(@, cause)]
    /\ UNCHANGED <<tr, visVars, queueVars>>

\* a loop body that adds every whole record to the counts
ProcessRecordUnchecked ==
    /\ trun.pc = "pp"
    /\ trun.offset + TestEventSize <= Len(trun.data) - TestHeaderSize
    /\ LET event_data == Slice(trun.data, TestHeaderSize, Len(trun.data))
           event_bytes == Slice(event_data, trun.offset, trun.offset + TestEventSize)
           r == TestParse(event_bytes)
       IN  /\ tr' = [tr EXCEPT !.polarity_counts = Incr(@, r.polarity)]
           /\ trun' = [trun EXCEPT !.events_processed = @ + (IF TestValid(r) THEN 1 ELSE 0),
                                   !.offset = @ + TestEventSize]
    /\ UNCHANGED <<twire, visVars, queueVars>>

\* process_packet, one turn of "while offset + event_size <= len(event_data)"
ProcessRecord ==
    /\ trun.pc = "pp"
    /\ trun.offset + TestEventSize <= Len(trun.data) - TestHeaderSize
    /\ LET event_data == Slice(trun.data, TestHeaderSize, Len(trun.data))
           event_bytes == Slice(event_data, trun.offset, trun.offset + TestEventSize)
           r == TestParse(event_bytes)
           ok == Len(event_bytes) >= TestMinEvent /\ TestValid(r)
       IN  /\ tr' = IF ok THEN [tr EXCEPT !.polarity_counts = Incr(@, r.polarity)] ELSE tr
           /\ trun' = [trun EXCEPT !.events_processed = @ + (IF ok THEN 1 ELSE 0),
                                   !.offset = @ + TestEventSize]
    /\ UNCHANGED <<twire, visVars, queueVars>>

\* process_packet after its loop: events_received += events_processed
ProcessPacketEnd ==
    /\ trun.pc = "pp"
    /\ trun.offset + TestEventSize > Len(trun.data) - TestHeaderSize
    /\ tr' = [tr EXCEPT !.events_received = @ + trun.events_processed]
    /\ trun' = [trun EXCEPT !.pc = "loop", !.data = <<>>, !.offset = 0, !.events_processed = 0]
    /\ UNCHANGED <<twire, visVars, queueVars>>

\* KeyboardInterrupt while the loop waits: caught at 131
RunInterrupt ==
    /\ trun.pc \in {"loop", "recv"}
    /\ trun' = [trun EXCEPT !.pc = "finally"]
    /\ UNCHANGED <<tr, twire, visVars, queueVars>>

\* "finally: self.stop(); self.print_final_stats()", then "return True"
RunFinally ==
    /\ trun.pc = "finally"
    /\ tr' = Stopped(tr)
    /\ trun' = [trun EXCEPT !.pc = "done", !.ret = "True"]
    /\ UNCHANGED <<twire, visVars, queueVars>>

\* the steps run() takes by itself; a blocked recvfrom ends with its timeout at the latest
RunStep ==
    \/ RunLoop
    \/ RunTimeout
    \/ RunRecvError("closed")
    \/ ProcessRecord
    \/ ProcessPacketEnd
    \/ RunFinally

NextRun ==
    \/ RunStart
    \/ \E s \in {"none", "open"} : RunStartFail(s)
    \/ SignalHandler
    \/ \E d \in TestDatagrams : RunRecv(d)
    \/ RunRecvError("fault")
    \/ RunInterrupt
    \/ RunStep

SpecRun == Init /\ [][NextRun]_vars

SpecRunLive == SpecRun /\ WF_vars(RunStep)

\* sum(polarity_counts.values())
RECURSIVE SumOver(_, _)
SumOver(d, keys) ==
    IF keys = {} THEN 0
    ELSE LET k == CHOOSE p \in keys : TRUE IN d[k] + SumOver(d, keys \ {k})

SumCounts(d) == SumOver(d, DOMAIN d)

\* C38: after every processed packet the polarity counts add up to events_received
\* (inside process_packet they are ahead by the events of the packet in hand), and
\* events_received is at most the number of whole 32-byte records in the payloads
\* received so far
C38_PolarityCountsSumToEvents ==
    /\ SumCounts(tr.polarity_counts) =
         tr.events_received + (IF trun.pc = "pp" THEN trun.events_processed ELSE 0)
    /\ tr.events_received <= twire.whole
    /\ trun.pc = "pp" => tr.events_received + trun.events_processed <= twire.whole

C38_Witness ==
    /\ trun.pc = "done"
    /\ tr.packets_received = 2
    /\ tr.events_received = 2
    /\ DOMAIN tr.polarity_counts = {0, 2}
    /\ twire.whole = 3

\* run() is past start() and has not returned
RunActive == trun.pc \in {"loop", "recv", "pp", "finally"}

====
